---------------------------- MODULE Spec2Model ----------------------------
(***************************************************************************)
(* Model of the lidar car's perception and control core:                   *)
(*   proscan.py  ProcessScan  (points, regions, segments, zero regions)    *)
(*   omnicar.py  OmniCar.open_sectors                                      *)
(*   operate.py  PID (steering trim) and ETA (arrival estimator)           *)
(*                                                                         *)
(* Arithmetic is exact.  Python floats are modelled by integers and by     *)
(* fractions kept as numerator/denominator; a comparison of a mean         *)
(* distance with FIT is made on squares, so no square root is taken.       *)
(* Indexes into point lists are 0-based as in the source; the TLA+         *)
(* sequence element of index i is s[i + 1].                                *)
(***************************************************************************)
EXTENDS Integers, Sequences, FiniteSets, TLC

VARIABLES
    \* ---- proscan.ProcessScan ----
    data,          \* constructor argument: list of (encoder_count, dist)
    self_GAP,      \* self.GAP
    self_FIT,      \* self.FIT
    self_LEV,      \* self.LEV
    points,        \* self.points
    regions,       \* self.regions
    segments,      \* self.segments
    zero_regions,  \* self.zero_regions
    pc,            \* position inside ProcessScan.__init__
    \* ---- omnicar.OmniCar.open_sectors ----
    car_points,    \* car.points as stored by car.scan()
    radius,        \* argument of open_sectors
    sectors,       \* value returned by open_sectors
    sec_pc,        \* "idle", "scanned", "returned" or "raised"
    \* ---- operate.PID ----
    pid,           \* the PID object (target, prev_error, trimval, rwl)
    pid_ret,       \* value returned by the latest trim() call
    pid_calls,     \* trim() calls made on this object
    pid_on_target, \* every trim() call so far read heading = target
    pid_errs,      \* heading - target of each trim() call so far, oldest first
    pid_pc,        \* "none" before construction, then "ready"
    \* ---- operate.ETA ----
    eta,           \* the ETA object
    now,           \* wall clock, seconds
    eta_ret,       \* value returned by the latest update(): <<n, num, den>>
    eta_hist,      \* <<val, dt>> of the updates made on this object
    eta_pc,        \* "none", "ready" or "raised"
    \* ---- operate.approach_wall, operate.drive_along_wall_on_left ----
    mv_kind,       \* "none", "approach", "backaway" or "along"
    mv_pc,         \* "idle", "loop", "break", "returned" or "raised"
    mv_t,          \* delta_t (approach_wall); passes made (drive_along_wall_on_left)
    mv_travel,     \* dist_to_travel of approach_wall (cm)
    mv_pid,        \* the PID object of approach_wall
    mv_eta,        \* the ETA object of drive_along_wall_on_left
    mv_now,        \* time since the maneuver began, quarters of a second
    mv_eow,        \* end_of_wall
    mv_dist,       \* dist of the latest closest line
    mv_log,        \* motion commands sent: <<command, front distance returned>>
    mv_scan,       \* dist measured by the latest get_closest_line_params call
    mv_trace,      \* sensor reads and motion commands of the maneuver, in
                   \* order: <<"scan", v>> (v the value the maneuver goes by:
                   \* dist in approach_wall, end_of_wall otherwise),
                   \* <<"heading", h>>, <<"go">>, <<"stop">>
    \* ---- omnicar.OmniCar.go, spin ----
    go_args,       \* arguments of the latest go / spin call
    go_sent,       \* the tuple handed to _xfer_data by that call
    go_pc,         \* "idle" or "sent"
    \* ---- omnicar.OmniCar.auto_detect_open_sector ----
    tg_points,     \* car.points
    car_target,    \* car.target; <<>> stands for None
    tg_found,      \* the latest auto_detect_open_sector call set a target
    tg_pc,         \* "idle", "scanned", "returned" or "raised"
    \* ---- operate.scan_and_plan ----
    plan_ret,      \* value returned by scan_and_plan
    plan_pc,       \* "idle", "returned" or the name of the exception raised
    \* ---- operate.follow_walls_left, follow_walls_left_lite ----
    fw_lite,       \* TRUE for follow_walls_left_lite
    fw_cycles,     \* n_cycles
    fw_n,          \* n
    fw_dist,       \* dist returned by drive_along_wall_on_left
    fw_log,        \* <<"call" or "return", maneuver, argument or value>>
    fw_pc,         \* position inside follow_walls_left
    \* ---- operate.turn_to ----
    tt_target,     \* target, normalized
    tt_err,        \* heading_error
    tt_cmd,        \* latest tuple sent to the motors by turn_to; <<>> if none
    tt_pc,         \* position inside turn_to
    tt_trace,      \* heading reads and commands of turn_to since its latest
                   \* spin command: <<"heading", h>>, <<"spin">>, <<"stop">>
    \* ---- omnicar.OmniCar.read_dist, resync ----
    rs_stream,     \* bytes read one at a time by resync, in order
    rs_first,      \* first
    rs_n,          \* n
    rs_distance,   \* distance, as read_dist computes it from a frame
    rs_pc          \* "idle", "resync" or "synced"

scanvars == <<data, self_GAP, self_FIT, self_LEV, points, regions, segments,
              zero_regions, pc>>
secvars  == <<car_points, radius, sectors, sec_pc>>
pidvars  == <<pid, pid_ret, pid_calls, pid_on_target, pid_errs, pid_pc>>
etavars  == <<eta, now, eta_ret, eta_hist, eta_pc>>
mvvars   == <<mv_kind, mv_pc, mv_t, mv_travel, mv_pid, mv_eta, mv_now, mv_eow,
              mv_dist, mv_log, mv_scan, mv_trace>>
govars   == <<go_args, go_sent, go_pc>>
tgvars   == <<tg_points, car_target, tg_found, tg_pc>>
planvars == <<plan_ret, plan_pc>>
fwvars   == <<fw_lite, fw_cycles, fw_n, fw_dist, fw_log, fw_pc>>
ttvars   == <<tt_target, tt_err, tt_cmd, tt_pc, tt_trace>>
rsvars   == <<rs_stream, rs_first, rs_n, rs_distance, rs_pc>>
ctlvars  == <<mvvars, govars, tgvars, planvars, fwvars, ttvars, rsvars>>
vars     == <<scanvars, secvars, pidvars, etavars, ctlvars>>

----------------------------------------------------------------------------
(* Bounds of the model *)

MaxLen == 6        \* longest scan handed to ProcessScan

----------------------------------------------------------------------------
(* Program constants *)

GAP == 12          \* proscan.py:16
FIT == 3           \* proscan.py:17
LEV == 10000       \* low encoder value: straight left, theta = pi
HEV == 30000       \* high encoder value: straight right, theta = 0

Abs(x) == IF x < 0 THEN -x ELSE x

\* Python int(): truncation toward zero of num/den, den > 0
PyInt(num, den) == IF num >= 0 THEN num \div den ELSE -((-num) \div den)

----------------------------------------------------------------------------
(* Geometry helpers of proscan.py *)

\* (a, b, c) of the line ax + by + c = 0 through two points
cnvrt_2pts_to_coef(pt1, pt2) ==
    LET x1 == pt1[1]
        y1 == pt1[2]
        x2 == pt2[1]
        y2 == pt2[2]
    IN  <<y2 - y1, x1 - x2, x2 * y1 - x1 * y2>>

\* Mutant: the projection without its guard on denom
proj_pt_on_line_m(line, pt) ==
    LET a == line[1]
        b == line[2]
        c == line[3]
        x == pt[1]
        y == pt[2]
    IN  [xn |-> b * b * x - a * b * y - a * c,
         yn |-> a * a * y - a * b * x - b * c,
         den |-> a * a + b * b]

\* Projection of pt on line, as the pair of numerators over denom = a^2+b^2;
\* with denom = 0 the point is returned unchanged (den = 1).
proj_pt_on_line(line, pt) ==
    LET a == line[1]
        b == line[2]
        c == line[3]
        x == pt[1]
        y == pt[2]
        denom == a * a + b * b
    IN  IF denom = 0
        THEN [xn |-> x, yn |-> y, den |-> 1]
        ELSE [xn |-> b * b * x - a * b * y - a * c,
              yn |-> a * a * y - a * b * x - b * c,
              den |-> denom]

\* Perpendicular distance between pt and line: p2p_dist(pt, p0) with p0 the
\* projection.  pt - p0 = (a*r, b*r)/denom where r = a*x + b*y + c, so the
\* distance is |r| * sqrt(denom) / denom = |r| / sqrt(denom).  It is kept as
\* the pair (num, den2) meaning num / sqrt(den2); for a degenerate line the
\* projection is pt itself and the distance is 0.
p2line_dist(pt, line) ==
    LET a == line[1]
        b == line[2]
        p0 == proj_pt_on_line(line, pt)
    IN  IF a * a + b * b = 0
        THEN [num |-> Abs(pt[1] - p0.xn) + Abs(pt[2] - p0.yn), den2 |-> 1]
        ELSE [num |-> Abs(a * pt[1] + b * pt[2] + line[3]),
              den2 |-> a * a + b * b]

----------------------------------------------------------------------------
(* Angles.  theta = (HEV - enc_val) * pi / (HEV - LEV) is kept as the       *)
(* integer HEV - enc_val, in units of pi / (HEV - LEV) radians.  cos and    *)
(* sin are tabulated for the directions whose cosine and sine are rational *)
(* (c/h, s/h); the encoder count of a tabulated direction is the integer   *)
(* nearest to the exact one.                                               *)

encoder_count_to_radians(enc_val) == HEV - enc_val

TrigTable ==
    (22513 :> <<-12, -5, 13>>) @@   \* enc  7487
    (20000 :> <<-1, 0, 1>>)    @@   \* enc 10000, straight left
    (17487 :> <<-12, 5, 13>>)  @@   \* enc 12513
    (15903 :> <<-4, 3, 5>>)    @@   \* enc 14097
    (14097 :> <<-3, 4, 5>>)    @@   \* enc 15903
    (10000 :> <<0, 1, 1>>)     @@   \* enc 20000, straight ahead
    (5903  :> <<3, 4, 5>>)     @@   \* enc 24097
    (1807  :> <<24, 7, 25>>)   @@   \* enc 28193
    (0     :> <<1, 0, 1>>)     @@   \* enc 30000, straight right
    (-1807 :> <<24, -7, 25>>)       \* enc 31807

\* dist * cos(theta) and dist * sin(theta)
DistCos(dist, theta) == (dist * TrigTable[theta][1]) \div TrigTable[theta][3]
DistSin(dist, theta) == (dist * TrigTable[theta][2]) \div TrigTable[theta][3]

----------------------------------------------------------------------------
(* proscan.ProcessScan *)

\* Point(enc_val, dist, theta=0, xy=(0, 0))
Point(enc_val, dist) ==
    [enc_val |-> enc_val, dist |-> dist, theta |-> 0, xy |-> <<0, 0>>]

\* _generate_points: one Point per record; theta for points with a non-zero
\* dist; xy for points with a non-zero theta.
generate_points(d) ==
    [k \in 1..Len(d) |->
        LET p0 == Point(d[k][1], d[k][2])
            p1 == IF p0.dist # 0
                  THEN [p0 EXCEPT !.theta = encoder_count_to_radians(p0.enc_val)]
                  ELSE p0
        IN  IF p1.theta # 0
            THEN [p1 EXCEPT !.xy = <<DistCos(p1.dist, p1.theta),
                                     DistSin(p1.dist, p1.theta)>>]
            ELSE p1]

\* self.points[i] with Python's index rules: i = -1 is the last element
PyAt(pts, i) == IF i < 0 THEN pts[Len(pts) + i + 1] ELSE pts[i + 1]

\* Mutant: the region closed at a gap is recorded up to n instead of n - 1
regions_step_m(pts, lev, hev, gap, n, st) ==
    LET pnt == PyAt(pts, n)
        s1 == [st EXCEPT !.n = n]
    IN  IF pnt.enc_val > hev /\ ~(pnt.enc_val < lev)
        THEN [s1 EXCEPT !.brk = TRUE]
        ELSE
          LET s2 == IF pnt.enc_val < lev
                    THEN [s1 EXCEPT !.start_index = n]
                    ELSE [s1 EXCEPT !.dist =
                             Abs(pnt.dist - PyAt(pts, n - 1).dist)]
          IN  IF 100 * s2.dist > gap * pnt.dist
              THEN [s2 EXCEPT
                      !.regions = IF n > s2.start_index + 1
                                  THEN Append(@, <<s2.start_index, n>>)
                                  ELSE @,
                      !.start_index = n]
              ELSE s2

\* Body of the for loop of _generate_regions for index n.
\* st = [regions, start_index, dist, n, brk]; n is the loop variable as it
\* is left when the loop ends; brk is set by the break of line 296.
regions_step(pts, lev, hev, gap, n, st) ==
    LET pnt == PyAt(pts, n)
        s1 == [st EXCEPT !.n = n]
    IN  IF pnt.enc_val > hev /\ ~(pnt.enc_val < lev)
        THEN [s1 EXCEPT !.brk = TRUE]
        ELSE
          LET s2 == IF pnt.enc_val < lev
                    THEN [s1 EXCEPT !.start_index = n]
                    ELSE [s1 EXCEPT !.dist =
                             Abs(pnt.dist - PyAt(pts, n - 1).dist)]
          IN  \* dist > self.GAP * pnt.dist / 100
              IF 100 * s2.dist > gap * pnt.dist
              THEN [s2 EXCEPT
                      !.regions = IF n > s2.start_index + 1
                                  THEN Append(@, <<s2.start_index, n - 1>>)
                                  ELSE @,
                      !.start_index = n]
              ELSE s2

RECURSIVE regions_loop(_, _, _, _, _, _)
regions_loop(pts, lev, hev, gap, n, st) ==
    IF n >= Len(pts) \/ st.brk THEN st
    ELSE regions_loop(pts, lev, hev, gap, n + 1,
                      regions_step(pts, lev, hev, gap, n, st))

\* Mutant: the last region is not added after the loop
generate_regions_m(pts, lev, hev, gap) ==
    regions_loop(pts, lev, hev, gap, 0,
                 [regions |-> <<>>, start_index |-> 0, dist |-> 0, n |-> 0,
                  brk |-> FALSE]).regions

\* _generate_regions; defined for a non-empty point list (with an empty
\* list the loop variable n is unbound at line 301).
generate_regions(pts, lev, hev, gap) ==
    LET st == regions_loop(pts, lev, hev, gap, 0,
                  [regions |-> <<>>, start_index |-> 0, dist |-> 0, n |-> 0,
                   brk |-> FALSE])
    IN  IF st.n # st.start_index
        THEN Append(st.regions, <<st.start_index, st.n>>)   \* add last region
        ELSE st.regions

\* _find_sum_of_sq_dist_to_line: the distances of the points of
\* range(indx0, indx1) (indexes swapped when descending) to line.
\* Returns [cum |-> sum of the numerators, den2, n]: cum_dist is
\* cum / sqrt(den2) and avg_dist is cum_dist / n.
RECURSIVE SumNum(_, _, _, _)
SumNum(pts, line, i, hi) ==
    IF i >= hi THEN 0
    ELSE p2line_dist(PyAt(pts, i).xy, line).num + SumNum(pts, line, i + 1, hi)

find_sum_of_sq_dist_to_line(pts, line, indx0, indx1) ==
    LET lo == IF indx1 < indx0 THEN indx1 ELSE indx0
        hi == IF indx1 < indx0 THEN indx0 ELSE indx1
    IN  [cum |-> SumNum(pts, line, lo, hi),
         den2 |-> IF line[1] * line[1] + line[2] * line[2] = 0 THEN 1
                  ELSE line[1] * line[1] + line[2] * line[2],
         n |-> hi - lo]

\* avg_dist < fit, for avg_dist = cum / sqrt(den2) / n, n > 0, fit > 0:
\* cum < fit * n * sqrt(den2), compared on the squares.
AvgBelow(sm, fit) == sm.cum * sm.cum < fit * fit * sm.n * sm.n * sm.den2

\* The while loop of _find_line_segment; below = (avg_dist < self.FIT).
RECURSIVE line_segment_loop(_, _, _, _, _, _)
line_segment_loop(pts, fit, istrt, istop, end_idx, below) ==
    LET ascending == istrt < end_idx
        step == IF ascending THEN 1 ELSE -1
        nxt == istop + step
    IN  IF ~below THEN istop - step
        ELSE IF (ascending /\ nxt > end_idx) \/ (~ascending /\ nxt < end_idx)
        THEN nxt - step                                       \* break
        ELSE LET line == cnvrt_2pts_to_coef(PyAt(pts, istrt).xy,
                                            PyAt(pts, nxt).xy)
                 sm == find_sum_of_sq_dist_to_line(pts, line, istrt, nxt)
             IN  line_segment_loop(pts, fit, istrt, nxt, end_idx,
                                   AvgBelow(sm, fit))

\* Mutant: no back-off after a misfit (the first point that does not fit is
\* returned instead of the last that fits)
find_line_segment_m(pts, fit, begin_idx, end_idx) ==
    LET r == line_segment_loop(pts, fit, begin_idx, begin_idx, end_idx, 0 < fit)
    IN  IF begin_idx < end_idx /\ r < end_idx THEN r + 1
        ELSE IF begin_idx > end_idx /\ r > end_idx THEN r - 1
        ELSE r

\* _find_line_segment: index of the last point, from begin_idx toward
\* end_idx, that fits the line drawn from begin_idx
find_line_segment(pts, fit, begin_idx, end_idx) ==
    line_segment_loop(pts, fit, begin_idx, begin_idx, end_idx, 0 < fit)

\* _find_corners: the forward corners of a region (the reverse pass is
\* computed by the source and dropped)
RECURSIVE corners_fwd(_, _, _, _)
corners_fwd(pts, fit, start_idx, idx1) ==
    IF start_idx = idx1 THEN <<>>
    ELSE LET corner_idx == find_line_segment(pts, fit, start_idx, idx1)
         IN  <<corner_idx>> \o corners_fwd(pts, fit, corner_idx, idx1)

RECURSIVE corners_rev(_, _, _, _)
corners_rev(pts, fit, corner_idx, idx0) ==
    IF corner_idx = idx0 THEN <<>>
    ELSE LET c == find_line_segment(pts, fit, corner_idx, idx0)
         IN  <<c>> \o corners_rev(pts, fit, c, idx0)

\* Mutant: the search stops one point before the end of the region
find_corners_m(pts, fit, region) ==
    corners_fwd(pts, fit, region[1], region[2] - 1)

find_corners(pts, fit, region) == corners_fwd(pts, fit, region[1], region[2])

InSeq(x, s) == \E k \in 1..Len(s) : s[k] = x

\* zip(corners, corners[1:])
ZipPairs(c) == [k \in 1..(Len(c) - 1) |-> <<c[k], c[k + 1]>>]

\* Mutant: the region's own end points are not merged into the corners
region_segments_m(pts, fit, region) ==
    ZipPairs(find_corners(pts, fit, region))

\* Body of the for loop of _generate_segments for one region
region_segments(pts, fit, region) ==
    LET c0 == find_corners(pts, fit, region)
        c1 == IF InSeq(region[1], c0) THEN c0 ELSE Append(c0, region[1])
        c2 == IF InSeq(region[2], c1) THEN c1 ELSE Append(c1, region[2])
        corners == SortSeq(c2, LAMBDA x, y : x < y)
    IN  ZipPairs(corners)

RECURSIVE Concat(_)
Concat(ss) == IF ss = <<>> THEN <<>> ELSE Head(ss) \o Concat(Tail(ss))

\* Mutant: all_segments is overwritten by each region's segments
generate_segments_m(pts, fit, regs) ==
    IF regs = <<>> THEN <<>>
    ELSE region_segments(pts, fit, regs[Len(regs)])

\* _generate_segments: all_segments.extend(segments) for each region
generate_segments(pts, fit, regs) ==
    Concat([k \in 1..Len(regs) |-> region_segments(pts, fit, regs[k])])

\* _find_zero_regions: 0-based indexes of the regions whose first point
\* has dist = 0
RECURSIVE find_zero_regions(_, _, _)
find_zero_regions(pts, regs, n) ==
    IF n >= Len(regs) THEN <<>>
    ELSE (IF PyAt(pts, regs[n + 1][1]).dist = 0 THEN <<n>> ELSE <<>>)
         \o find_zero_regions(pts, regs, n + 1)

----------------------------------------------------------------------------
(* Inputs of ProcessScan: scans of one sweep, encoder count ascending.      *)
(* Every sample lies on a tabulated direction at a distance that makes its *)
(* position integral: a wall at x = -12 (samples 1 to 5), a wall at        *)
(* y = 16 (samples 5 to 7), nearer and farther echoes, and samples with no *)
(* echo (dist = 0).                                                        *)

SamplePool ==
    { <<7487, 13>>,                     \* (-12, -5), before the window
      <<10000, 12>>,                    \* (-12, 0)
      <<12513, 13>>,                    \* (-12, 5)
      <<14097, 15>>, <<14097, 0>>,      \* (-12, 9)
      <<15903, 20>>, <<15903, 5>>,      \* (-12, 16), (-3, 4)
      <<20000, 16>>, <<20000, 0>>,      \* (0, 16)
      <<24097, 20>>,                    \* (12, 16)
      <<28193, 25>>,                    \* (24, 7)
      <<30000, 24>>,                    \* straight right, theta = 0
      <<31807, 25>> }                   \* (24, -7), past the window

\* Scans of at most n samples
RECURSIVE ScansUpTo(_)
ScansUpTo(n) ==
    IF n = 0 THEN { <<>> }
    ELSE LET prev == ScansUpTo(n - 1)
         IN  prev \cup { Append(sc, sm) : <<sc, sm>> \in
                           { q \in prev \X SamplePool :
                               q[1] = <<>> \/ q[1][Len(q[1])][1] < q[2][1] } }

GapVals == {GAP, 40}     \* gap argument: default, and a wide one
FitVals == {1, FIT, 5}   \* fit argument: default, tighter, looser (operate.py:248)
LevVals == {LEV, 5000}   \* lev argument: default, and operate.py:238

ScanIdle ==
    /\ data = <<>> /\ self_GAP = GAP /\ self_FIT = FIT /\ self_LEV = LEV
    /\ points = <<>> /\ regions = <<>> /\ segments = <<>>
    /\ zero_regions = <<>> /\ pc = "idle"

\* ProcessScan.__init__ up to the four generation calls (lines 94-113)
ScanInit ==
    /\ data \in ScansUpTo(MaxLen)
    /\ self_GAP \in GapVals
    /\ self_FIT \in FitVals
    /\ self_LEV \in LevVals
    /\ points = <<>> /\ regions = <<>> /\ segments = <<>>
    /\ zero_regions = <<>>
    /\ pc = "new"

\* line 114
GeneratePoints ==
    /\ pc = "new"
    /\ points' = generate_points(data)
    /\ pc' = "points"
    /\ UNCHANGED <<data, self_GAP, self_FIT, self_LEV, regions, segments,
                   zero_regions>>
    /\ UNCHANGED <<secvars, pidvars, etavars, ctlvars>>

\* line 115; with no point the method raises (n is unbound at line 301)
GenerateRegions ==
    /\ pc = "points"
    /\ IF points = <<>>
       THEN /\ pc' = "raised"
            /\ UNCHANGED regions
       ELSE /\ regions' = generate_regions(points, self_LEV, HEV, self_GAP)
            /\ pc' = "regions"
    /\ UNCHANGED <<data, self_GAP, self_FIT, self_LEV, points, segments,
                   zero_regions>>
    /\ UNCHANGED <<secvars, pidvars, etavars, ctlvars>>

\* line 116
GenerateSegments ==
    /\ pc = "regions"
    /\ segments' = generate_segments(points, self_FIT, regions)
    /\ pc' = "segments"
    /\ UNCHANGED <<data, self_GAP, self_FIT, self_LEV, points, regions,
                   zero_regions>>
    /\ UNCHANGED <<secvars, pidvars, etavars, ctlvars>>

\* line 117
FindZeroRegions ==
    /\ pc = "segments"
    /\ zero_regions' = find_zero_regions(points, regions, 0)
    /\ pc' = "done"
    /\ UNCHANGED <<data, self_GAP, self_FIT, self_LEV, points, regions,
                   segments>>
    /\ UNCHANGED <<secvars, pidvars, etavars, ctlvars>>

----------------------------------------------------------------------------
(* omnicar.OmniCar.open_sectors *)

\* A data point dictionary of car.scan(): enc_cnt, dist and theta, theta
\* being encoder_count_to_radians(enc_cnt) (omnicar.py:385) in the same
\* integer unit as above.
CarPoint(enc_cnt, dist) ==
    [enc_cnt |-> enc_cnt, dist |-> dist, theta |-> HEV - enc_cnt]

\* int(pnt.get("theta") * 180 / math.pi)
AngleDeg(pnt) == PyInt(pnt.theta * 180, HEV - LEV)

\* dist < 0 or dist > radius
IsOpen(dist, r) == dist < 0 \/ dist > r

\* Body of the for loop of open_sectors for one point.
\* st = [sectors, in_sector, bound, start_angle, end_angle]; bound tells
\* whether start_angle and end_angle have been assigned.
sectors_step(pnt, r, st) ==
    LET dist == pnt.dist
    IN  IF ~st.in_sector
        THEN IF IsOpen(dist, r)
             THEN [st EXCEPT !.start_angle = AngleDeg(pnt),
                             !.end_angle = AngleDeg(pnt),
                             !.in_sector = TRUE,
                             !.bound = TRUE]
             ELSE st
        ELSE IF IsOpen(dist, r)
             THEN [st EXCEPT !.end_angle = AngleDeg(pnt)]
             ELSE IF dist < r
             THEN [st EXCEPT !.in_sector = FALSE,
                             !.sectors = Append(@, <<st.start_angle,
                                                     st.end_angle>>)]
             ELSE st

RECURSIVE sectors_loop(_, _, _, _)
sectors_loop(pts, r, k, st) ==
    IF k > Len(pts) THEN st
    ELSE sectors_loop(pts, r, k + 1, sectors_step(pts[k], r, st))

SectorsLoopEnd(pts, r) ==
    sectors_loop(pts, r, 1,
                 [sectors |-> <<>>, in_sector |-> FALSE, bound |-> FALSE,
                  start_angle |-> 0, end_angle |-> 0])

\* Mutant: the sector left after the loop is appended without the test
open_sectors_a(pts, r) ==
    LET st == SectorsLoopEnd(pts, r)
    IN  Append(st.sectors, <<st.start_angle, st.end_angle>>)

\* Mutant: the sector left open when the scan ends is not appended
open_sectors_m(pts, r) == SectorsLoopEnd(pts, r).sectors

\* Lines 309-312: the sector left after the loop, appended unless it is
\* already in the list
open_sectors(pts, r) ==
    LET st == SectorsLoopEnd(pts, r)
        sector == <<st.start_angle, st.end_angle>>
    IN  IF ~InSeq(sector, st.sectors)
        THEN Append(st.sectors, sector)
        ELSE st.sectors

\* open_sectors raises at line 309 when no point was open: start_angle is
\* unbound
OpenSectorsRaises(pts, r) == ~SectorsLoopEnd(pts, r).bound

MaxPts == 4        \* longest scan stored in car.points

\* Encoder counts of car.scan() samples (lev < enc_val < hev); 20050, 20080
\* and 20100 fall in the same whole degree (89)
CarEncVals == {12000, 20000, 20050, 20080, 20100, 25000, 28000}

\* self.distance values: -3 is the reading with no echo (omnicar.py:316)
CarDistVals == {-3, 50, 100, 150}

RadiusVals == {50, 100}

RECURSIVE CarScansUpTo(_)
CarScansUpTo(n) ==
    IF n = 0 THEN { <<>> }
    ELSE LET prev == CarScansUpTo(n - 1)
         IN  prev \cup
             { Append(q[1], CarPoint(q[2], q[3])) :
                 q \in { t \in prev \X CarEncVals \X CarDistVals :
                           t[1] = <<>> \/ t[1][Len(t[1])].enc_cnt < t[2] } }

SecIdle ==
    /\ car_points = <<>> /\ radius = 0 /\ sectors = <<>> /\ sec_pc = "idle"

\* car.scan(): stores the data points of one sweep in car.points
CarScan ==
    /\ sec_pc = "idle"
    /\ car_points' \in CarScansUpTo(MaxPts)
    /\ sec_pc' = "scanned"
    /\ UNCHANGED <<radius, sectors>>
    /\ UNCHANGED <<scanvars, pidvars, etavars, ctlvars>>

\* car.open_sectors(radius)
OpenSectors ==
    /\ sec_pc = "scanned"
    /\ \E r \in RadiusVals :
         /\ radius' = r
         /\ IF OpenSectorsRaises(car_points, r)
            THEN /\ sec_pc' = "raised"
                 /\ UNCHANGED sectors
            ELSE /\ sec_pc' = "returned"
                 /\ sectors' = open_sectors(car_points, r)
    /\ UNCHANGED car_points
    /\ UNCHANGED <<scanvars, pidvars, etavars, ctlvars>>

----------------------------------------------------------------------------
(* operate.PID *)

PIDTRIM == 8       \* operate.py:36
PIDWIN == 6        \* operate.py:37
KP100 == 20        \* KP = 0.2, in hundredths (operate.py:33)
KI100 == 15        \* KI = 0.15, in hundredths (operate.py:34)
KD100 == 40        \* KD = 0.4, in hundredths (operate.py:35)
PIDInitial == 1    \* self.initial (operate.py:52)

RECURSIVE SumSeq(_)
SumSeq(s) == IF s = <<>> THEN 0 ELSE Head(s) + SumSeq(Tail(s))

\* PID.__init__
PID_init(target) ==
    [target |-> target, prev_error |-> 0, trimval |-> PIDTRIM,
     rws |-> PIDWIN, rwl |-> [k \in 1..PIDWIN |-> PIDInitial]]

\* Mutant: the new error is inserted but nothing is popped
RollWindow_m(rwl, hdg_err) == <<hdg_err>> \o rwl

\* _get_integral_error: rwl.insert(0, hdg_err); rwl.pop()
RollWindow(rwl, hdg_err) == SubSeq(<<hdg_err>> \o rwl, 1, Len(rwl))

\* Mutant: the derivative term is taken from the heading, not from the error
Adjustment_d(p, rwl, heading_error) ==
    PyInt(KP100 * heading_error * Len(rwl)
          + KI100 * SumSeq(rwl)
          + KD100 * (heading_error + p.target - p.prev_error) * Len(rwl),
          100 * Len(rwl))

\* Mutant: the sum is rounded down (floor), not truncated toward zero
Adjustment_m(p, rwl, heading_error) ==
    (KP100 * heading_error * Len(rwl)
     + KI100 * SumSeq(rwl)
     + KD100 * (heading_error - p.prev_error) * Len(rwl))
    \div (100 * Len(rwl))

\* int(p_term + i_term + d_term), with i_term = sum(rwl)/len(rwl) * KI:
\* (KP*e*W + KI*sum + KD*(e - prev)*W) / (100 * W), truncated toward zero
Adjustment(p, rwl, heading_error) ==
    PyInt(KP100 * heading_error * Len(rwl)
          + KI100 * SumSeq(rwl)
          + KD100 * (heading_error - p.prev_error) * Len(rwl),
          100 * Len(rwl))

\* Mutant: the heading itself is taken as the error (target not subtracted)
PID_trim_m(p, hdg) ==
    LET heading_error == hdg
        rwl == RollWindow(p.rwl, heading_error)
    IN  [p EXCEPT !.rwl = rwl,
                  !.prev_error = heading_error,
                  !.trimval = @ + Adjustment(p, rwl, heading_error)]

\* PID.trim() with hdg = car.heading(): the object after the call
PID_trim(p, hdg) ==
    LET heading_error == hdg - p.target
        rwl == RollWindow(p.rwl, heading_error)
    IN  [p EXCEPT !.rwl = rwl,
                  !.prev_error = heading_error,
                  !.trimval = @ + Adjustment(p, rwl, heading_error)]

MaxCalls == 9      \* trim() calls followed on one controller

TargetVals == {90}
HeadingVals == {87, 90, 91, 94}

PIDIdle ==
    /\ pid = PID_init(0) /\ pid_ret = 0 /\ pid_calls = 0
    /\ pid_on_target = TRUE /\ pid_errs = <<>> /\ pid_pc = "none"

\* pid = PID(target)
PIDNew ==
    /\ \E target \in TargetVals : pid' = PID_init(target)
    /\ pid_ret' = 0
    /\ pid_calls' = 0
    /\ pid_on_target' = TRUE
    /\ pid_errs' = <<>>
    /\ pid_pc' = "ready"
    /\ UNCHANGED <<scanvars, secvars, etavars, ctlvars>>

\* pid.trim()
PIDTrim ==
    /\ pid_pc = "ready"
    /\ pid_calls < MaxCalls
    /\ \E hdg \in HeadingVals :
         /\ pid' = PID_trim(pid, hdg)
         /\ pid_on_target' = (pid_on_target /\ hdg = pid.target)
         /\ pid_errs' = Append(pid_errs, hdg - pid.target)
    /\ pid_ret' = pid'.trimval
    /\ pid_calls' = pid_calls + 1
    /\ UNCHANGED pid_pc
    /\ UNCHANGED <<scanvars, secvars, etavars, ctlvars>>

----------------------------------------------------------------------------
(* operate.ETA *)

None == -1         \* self.delta_time = None

\* ETA.__init__ at time t
ETA_init(initial_val, target, t) ==
    [target |-> target, initial_val |-> initial_val, prev_val |-> initial_val,
     prev_time |-> t, delta_time |-> None]

\* delta_val of update(val); assigned on neither branch when
\* initial_val = target
DeltaBound(e) == e.initial_val # e.target
\* Mutant: progress measured from the initial value, not the previous one
delta_val_m(e, val) ==
    IF e.initial_val > e.target THEN e.initial_val - val
    ELSE val - e.initial_val

delta_val(e, val) ==
    IF e.initial_val > e.target THEN e.prev_val - val ELSE val - e.prev_val

\* update(val) raises: delta_val unbound or zero at line 110
\* (slope = self.delta_time / delta_val), or delta_time zero at line 116
ETA_raises(e, val, t) ==
    \/ ~DeltaBound(e)
    \/ delta_val(e, val) = 0
    \/ t - e.prev_time = 0

\* eta = (val - target) * slope, slope = delta_time / delta_val, kept as
\* the fraction num / den with den > 0
EtaNum(e, val, t) ==
    LET d == delta_val(e, val)
    IN  (val - e.target) * (t - e.prev_time) * (IF d < 0 THEN -1 ELSE 1)
EtaDen(e, val, t) == Abs(delta_val(e, val))

\* Mutant: the quotient is rounded down (floor), not truncated toward zero
UpdatesRemaining_m(e, val, t) ==
    EtaNum(e, val, t) \div (EtaDen(e, val, t) * (t - e.prev_time))

\* nmbr_of_updates_remaining = int(eta / self.delta_time)
UpdatesRemaining(e, val, t) ==
    PyInt(EtaNum(e, val, t), EtaDen(e, val, t) * (t - e.prev_time))

\* The ETA object after update(val) at time t.  When line 110 raises, only
\* delta_time has been assigned.
ETA_update(e, val, t) ==
    IF ~DeltaBound(e) \/ delta_val(e, val) = 0
    THEN [e EXCEPT !.delta_time = t - e.prev_time]
    ELSE [e EXCEPT !.delta_time = t - e.prev_time,
                   !.prev_val = val,
                   !.prev_time = t]

MaxUpdates == 3    \* update() calls followed on one estimator
MaxGap == 2        \* longest time between two updates, seconds

EtaInitVals == {100, 40}
EtaTargetVals == {0, 10, 100}
EtaVals == {100, 80, 60, 40}

ETAIdle ==
    /\ eta = ETA_init(0, 0, 0) /\ now = 0 /\ eta_ret = <<0, 0, 1>>
    /\ eta_hist = <<>> /\ eta_pc = "none"

\* eta = ETA(initial_val, target)
ETANew ==
    /\ eta_pc = "none"
    /\ \E iv \in EtaInitVals, tg \in EtaTargetVals : eta' = ETA_init(iv, tg, now)
    /\ eta_pc' = "ready"
    /\ UNCHANGED <<now, eta_ret, eta_hist>>
    /\ UNCHANGED <<scanvars, secvars, pidvars, ctlvars>>

\* Time passes (the scan and the drive command between two updates)
Tick ==
    /\ eta_pc = "ready"
    /\ now - eta.prev_time < MaxGap
    /\ now' = now + 1
    /\ UNCHANGED <<eta, eta_ret, eta_hist, eta_pc>>
    /\ UNCHANGED <<scanvars, secvars, pidvars, ctlvars>>

\* eta.update(val); at least one clock tick separates it from the previous
\* update or from the construction
ETAUpdate ==
    /\ eta_pc = "ready"
    /\ Len(eta_hist) < MaxUpdates
    /\ now > eta.prev_time
    /\ \E val \in EtaVals :
         /\ eta' = ETA_update(eta, val, now)
         /\ eta_hist' = Append(eta_hist, <<val, now - eta.prev_time>>)
         /\ IF ETA_raises(eta, val, now)
            THEN /\ eta_pc' = "raised"
                 /\ UNCHANGED eta_ret
            ELSE /\ eta_pc' = "ready"
                 /\ eta_ret' = <<UpdatesRemaining(eta, val, now),
                                 EtaNum(eta, val, now), EtaDen(eta, val, now)>>
    /\ UNCHANGED now
    /\ UNCHANGED <<scanvars, secvars, pidvars, ctlvars>>

----------------------------------------------------------------------------
(* operate.approach_wall and operate.drive_along_wall_on_left *)

corevars == <<scanvars, secvars, pidvars, etavars>>

RATE2 == 27        \* RATE = 13.5 cm/sec, doubled (operate.py:25)
EOW == 25          \* operate.py:27
CLEARANCE == 40    \* operate.py:28
EtaTarget == 10    \* eta = ETA(end_of_wall, 10) (operate.py:355)
SONAR_STOP == 20   \* stop threshold of the front sonar (constants.SONAR_STOP)

MaxSteps == 3      \* passes through the loop of drive_along_wall_on_left

\* get_closest_line_params() calls ProcessScan.closest_region, which
\* proscan.py does not define; its result (the nearest wall's distance and
\* far-end Y coordinate) is taken as any of these values.
LineDistVals == {30, 40, 45, 50}
LineEowVals == {20, 40, 60, 100}
\* front distance returned by car.go
SonarVals == {10, 100}
\* car.heading() while approaching
MvHeadingVals == {90, 91}

MvIdle ==
    /\ mv_kind = "none" /\ mv_pc = "idle" /\ mv_t = 0 /\ mv_travel = 0
    /\ mv_pid = PID_init(0) /\ mv_eta = ETA_init(0, 0, 0) /\ mv_now = 0
    /\ mv_eow = 0 /\ mv_dist = 0 /\ mv_log = <<>>
    /\ mv_scan = 0 /\ mv_trace = <<>>

\* approach_wall up to the first test of its while loop
ApproachWall ==
    /\ mv_pc = "idle"
    /\ \E dist \in LineDistVals, hdg \in MvHeadingVals :
         /\ mv_dist' = dist
         /\ mv_scan' = dist
         /\ mv_trace' = IF dist > CLEARANCE
                         THEN << <<"scan", dist>>, <<"heading", hdg>> >>
                         ELSE << <<"scan", dist>> >>
         /\ IF dist > CLEARANCE
            THEN /\ mv_kind' = "approach"
                 /\ mv_travel' = dist - CLEARANCE
                 /\ mv_pid' = PID_init(hdg)
                 /\ mv_pc' = "loop"
            ELSE IF dist < CLEARANCE
            THEN /\ mv_kind' = "backaway"
                 /\ mv_travel' = CLEARANCE - dist
                 /\ mv_pid' = mv_pid
                 /\ mv_pc' = "loop"
            ELSE /\ mv_kind' = "approach"
                 /\ mv_travel' = 0
                 /\ mv_pid' = mv_pid
                 /\ mv_pc' = "returned"
    /\ mv_t' = 0 /\ mv_now' = 0 /\ mv_log' = <<>>
    /\ UNCHANGED <<mv_eta, mv_eow>>
    /\ UNCHANGED <<corevars, govars, tgvars, planvars, fwvars, ttvars, rsvars>>

\* while delta_t < time_to_travel, with time_to_travel = dist_to_travel / RATE
\* and the clock counted in quarters of a second
ApproachTimeLeft == mv_t * RATE2 < mv_travel * 8

\* Mutant: approach_wall drives with the fixed trim in both branches, no
\* heading is read
ApproachWallGo_m ==
    /\ mv_pc = "loop" /\ mv_kind \in {"approach", "backaway"}
    /\ ApproachTimeLeft
    /\ mv_t' = mv_now
    /\ mv_pid' = mv_pid
    /\ mv_trace' = Append(mv_trace, <<"go">>)
    /\ \E sonardist \in SonarVals : mv_log' = Append(mv_log, <<"go", sonardist>>)
    /\ \E dt \in 1..2 : mv_now' = mv_now + dt
    /\ UNCHANGED <<mv_kind, mv_pc, mv_travel, mv_eta, mv_eow, mv_dist, mv_scan>>
    /\ UNCHANGED <<corevars, govars, tgvars, planvars, fwvars, ttvars, rsvars>>

\* one pass through the while loop of approach_wall: the front distance the
\* drive command returns is logged and used for nothing else
ApproachWallGo ==
    /\ mv_pc = "loop" /\ mv_kind \in {"approach", "backaway"}
    /\ ApproachTimeLeft
    /\ mv_t' = mv_now
    /\ IF mv_kind = "approach"
       THEN \E hdg \in MvHeadingVals :
              /\ mv_pid' = PID_trim(mv_pid, hdg)
              /\ mv_trace' = mv_trace \o << <<"heading", hdg>>, <<"go">> >>
       ELSE /\ mv_pid' = mv_pid
            /\ mv_trace' = Append(mv_trace, <<"go">>)
    /\ \E sonardist \in SonarVals : mv_log' = Append(mv_log, <<"go", sonardist>>)
    /\ \E dt \in 1..2 : mv_now' = mv_now + dt
    /\ UNCHANGED <<mv_kind, mv_pc, mv_travel, mv_eta, mv_eow, mv_dist, mv_scan>>
    /\ UNCHANGED <<corevars, govars, tgvars, planvars, fwvars, ttvars, rsvars>>

\* the loop of approach_wall ends: car.stop_wheels() and return
ApproachWallStop ==
    /\ mv_pc = "loop" /\ mv_kind \in {"approach", "backaway"}
    /\ ~ApproachTimeLeft
    /\ \E sonardist \in SonarVals : mv_log' = Append(mv_log, <<"stop", sonardist>>)
    /\ mv_trace' = Append(mv_trace, <<"stop">>)
    /\ mv_pc' = "returned"
    /\ UNCHANGED <<mv_kind, mv_t, mv_travel, mv_pid, mv_eta, mv_now, mv_eow,
                   mv_dist, mv_scan>>
    /\ UNCHANGED <<corevars, govars, tgvars, planvars, fwvars, ttvars, rsvars>>

\* Mutant: the far end is compared with the estimator's target, not with EOW
WallAhead_m(end_of_wall) == end_of_wall > EtaTarget

\* end_of_wall > EOW: the test made before the loop and at each pass
WallAhead(end_of_wall) == end_of_wall > EOW

\* drive_along_wall_on_left up to the first test of its while loop
DriveAlongWall ==
    /\ mv_pc = "idle"
    /\ \E dist \in LineDistVals, end_of_wall \in LineEowVals :
         /\ mv_dist' = dist
         /\ mv_scan' = dist
         /\ mv_trace' = << <<"scan", end_of_wall>> >>
         /\ mv_eow' = end_of_wall
         /\ mv_eta' = IF WallAhead(end_of_wall)
                      THEN ETA_init(end_of_wall, EtaTarget, 0)
                      ELSE mv_eta
    /\ mv_kind' = "along" /\ mv_pc' = "loop"
    /\ mv_t' = 0 /\ mv_now' = 0 /\ mv_log' = <<>>
    /\ UNCHANGED <<mv_travel, mv_pid>>
    /\ UNCHANGED <<corevars, govars, tgvars, planvars, fwvars, ttvars, rsvars>>

\* one pass through the while loop of drive_along_wall_on_left (about 2.1
\* seconds): rescan, car.go (whatever it returns is dropped), eta.update,
\* break when no update remains
DriveAlongWallGo ==
    /\ mv_pc = "loop" /\ mv_kind = "along"
    /\ WallAhead(mv_eow)
    /\ mv_t < MaxSteps
    /\ mv_t' = mv_t + 1
    /\ \E dist \in LineDistVals, end_of_wall \in LineEowVals,
          sonardist \in SonarVals, dt \in 8..9 :
         LET t == mv_now + dt IN
         /\ mv_dist' = dist
         /\ mv_scan' = dist
         /\ mv_trace' = mv_trace \o << <<"scan", end_of_wall>>, <<"go">> >>
         /\ mv_now' = t
         /\ mv_log' = Append(mv_log, <<"go", sonardist>>)
         /\ mv_eta' = ETA_update(mv_eta, end_of_wall, t)
         /\ IF ETA_raises(mv_eta, end_of_wall, t)
            THEN mv_pc' = "raised" /\ mv_eow' = end_of_wall
            ELSE IF UpdatesRemaining(mv_eta, end_of_wall, t) = 0
            THEN mv_pc' = "break" /\ mv_eow' = end_of_wall
            ELSE mv_pc' = "loop" /\ mv_eow' = end_of_wall
    /\ UNCHANGED <<mv_kind, mv_travel, mv_pid>>
    /\ UNCHANGED <<corevars, govars, tgvars, planvars, fwvars, ttvars, rsvars>>

\* after the loop: car.stop_wheels(), the final scan (whose result is only
\* printed), return dist
DriveAlongWallStop ==
    /\ mv_kind = "along"
    /\ \/ mv_pc = "break"
       \/ mv_pc = "loop" /\ ~WallAhead(mv_eow)
    /\ \E sonardist \in SonarVals : mv_log' = Append(mv_log, <<"stop", sonardist>>)
    /\ \E dist \in LineDistVals, end_of_wall \in LineEowVals :
         /\ mv_scan' = dist
         /\ mv_trace' = mv_trace \o << <<"stop">>, <<"scan", end_of_wall>> >>
    /\ mv_pc' = "returned"
    /\ UNCHANGED <<mv_kind, mv_t, mv_travel, mv_pid, mv_eta, mv_now, mv_eow,
                   mv_dist>>
    /\ UNCHANGED <<corevars, govars, tgvars, planvars, fwvars, ttvars, rsvars>>

----------------------------------------------------------------------------
(* omnicar.OmniCar.go, spin, stop_wheels *)

MotorMax == 255    \* largest wheel speed the motor shield accepts

\* floor(|speed| / sqrt(2)): |speed * cos| and |speed * sin| of geo.p2r at
\* the diagonals 45, 135, 225, 315 degrees
DiagFloor(speed) ==
    CHOOSE f \in 0..Abs(speed) :
        2 * f * f <= speed * speed /\ speed * speed < 2 * (f + 1) * (f + 1)

\* signs of (cos, sin) of angle - 45 for the drive directions RGT, FWD, LFT, REV
DiagSigns(angle) ==
    CASE angle = 0   -> <<1, -1>>
      [] angle = 90  -> <<1, 1>>
      [] angle = 180 -> <<-1, 1>>
      [] angle = 270 -> <<-1, -1>>

\* int(spin + sgn * speed / sqrt(2)), truncated toward zero; speed / sqrt(2)
\* is no integer unless speed = 0
IntSpinPlus(spin, sgn, speed) ==
    LET f == DiagFloor(speed)
        s == IF speed < 0 THEN -sgn ELSE sgn
    IN  IF speed = 0 THEN spin
        ELSE IF s > 0
        THEN (IF spin + f >= 0 THEN spin + f ELSE spin + f + 1)
        ELSE (IF spin - f - 1 >= 0 THEN spin - f - 1 ELSE spin - f)

\* friction keeps motors from running smoothly at speeds below ~50
MinSpeed(m) ==
    IF 0 < m /\ m < 50 THEN 50
    ELSE IF -50 < m /\ m < 0 THEN -50
    ELSE m

\* the tuple go(speed, angle, spin) hands to _xfer_data
go(speed, angle, spin) ==
    LET sg == DiagSigns(angle)
        m1spd == MinSpeed(IntSpinPlus(spin, sg[1], speed))
        m2spd == MinSpeed(IntSpinPlus(spin, -sg[1], speed))
        m3spd == MinSpeed(IntSpinPlus(spin, -sg[2], speed))
        m4spd == MinSpeed(IntSpinPlus(spin, sg[2], speed))
    IN  <<1, m1spd, m2spd, m3spd, m4spd, 0>>

\* the tuple spin(spd) hands to _xfer_data
spin(spd) == <<1, spd, spd, spd, spd, 0>>

\* the tuple stop_wheels() hands to _xfer_data
stop_wheels == <<1, 0, 0, 0, 0, 0>>

SpeedVals == {0, 100, 150, 200, 300}
AngleVals == {0, 90, 180, 270}
SpinVals == {-100, -8, 0, 8, 60, 200}
SpinRateVals == {-60, -42, 45, 300}

GoIdle == go_args = <<>> /\ go_sent = <<>> /\ go_pc = "idle"

\* car.go(speed, angle, spin)
Go ==
    /\ \E speed \in SpeedVals, angle \in AngleVals, spn \in SpinVals :
         /\ go_args' = <<"go", speed, angle, spn>>
         /\ go_sent' = go(speed, angle, spn)
    /\ go_pc' = "sent"
    /\ UNCHANGED <<corevars, mvvars, tgvars, planvars, fwvars, ttvars, rsvars>>

\* car.spin(spd)
SpinCar ==
    /\ \E spd \in SpinRateVals :
         /\ go_args' = <<"spin", spd>>
         /\ go_sent' = spin(spd)
    /\ go_pc' = "sent"
    /\ UNCHANGED <<corevars, mvvars, tgvars, planvars, fwvars, ttvars, rsvars>>

\* car.stop_wheels()
StopWheels ==
    /\ go_args' = <<"stop_wheels">>
    /\ go_sent' = stop_wheels
    /\ go_pc' = "sent"
    /\ UNCHANGED <<corevars, mvvars, tgvars, planvars, fwvars, ttvars, rsvars>>

----------------------------------------------------------------------------
(* omnicar.OmniCar.auto_detect_open_sector *)

MaxSweep == 2      \* longest scan stored in car.points before auto-detection

\* rvals: the dist of every point whose dist is not 3
rvals(pts) == SelectSeq([k \in 1..Len(pts) |-> pts[k].dist], LAMBDA d : d # 3)

\* avgdist = sum(rvals)/len(rvals) divides by zero when rvals is empty
AvgRaises(pts) == rvals(pts) = <<>>

\* radius = avgdist * 1.5 = 3 * sum(rvals) / (2 * len(rvals)).  open_sectors
\* only compares each dist with 0 and with radius, so it is applied to the
\* dists and the radius both multiplied by 2 * len(rvals).
ScaledPoints(pts) ==
    [k \in 1..Len(pts) |-> [pts[k] EXCEPT !.dist = @ * 2 * Len(rvals(pts))]]
ScaledRadius(pts) == 3 * SumSeq(rvals(pts))

\* auto_detect_open_sector raises: no dist to average, or no open point
AutoDetectRaises(pts) ==
    \/ AvgRaises(pts)
    \/ OpenSectorsRaises(ScaledPoints(pts), ScaledRadius(pts))

\* the sectors wider than 12 degrees, in order
WideSectors(pts) ==
    SelectSeq(open_sectors(ScaledPoints(pts), ScaledRadius(pts)),
              LAMBDA s : s[1] - s[2] > 12)

\* target_coords for a sector: geo.p2r(radius * .7, (angle0 + angle1) / 2),
\* kept in polar form as <<2 * angle, numerator, denominator of the radius>>
TargetCoords(pts, sector) ==
    <<sector[1] + sector[2], 21 * SumSeq(rvals(pts)), 20 * Len(rvals(pts))>>

\* self.target after auto_detect_open_sector() returns: set from the first
\* sector wider than 12 degrees, otherwise left as it was
auto_detect_open_sector(pts, target) ==
    IF WideSectors(pts) = <<>> THEN target
    ELSE TargetCoords(pts, Head(WideSectors(pts)))

TgEncVals == {12000, 20000, 28000}
\* dist 3 is the value the average leaves out; -3 is a reading with no echo
TgDistVals == {-3, 3, 150}

RECURSIVE TgScansUpTo(_)
TgScansUpTo(n) ==
    IF n = 0 THEN { <<>> }
    ELSE LET prev == TgScansUpTo(n - 1)
         IN  prev \cup
             { Append(q[1], CarPoint(q[2], q[3])) :
                 q \in { s \in prev \X TgEncVals \X TgDistVals :
                           s[1] = <<>> \/ s[1][Len(s[1])].enc_cnt < s[2] } }

TgIdle ==
    /\ tg_points = <<>> /\ car_target = <<>> /\ tg_found = FALSE
    /\ tg_pc = "idle"

\* car.scan() in drive_to_spot
TgScan ==
    /\ tg_pc \in {"idle", "returned"}
    /\ tg_points' \in TgScansUpTo(MaxSweep)
    /\ tg_pc' = "scanned"
    /\ UNCHANGED <<car_target, tg_found>>
    /\ UNCHANGED <<corevars, mvvars, govars, planvars, fwvars, ttvars, rsvars>>

\* car.auto_detect_open_sector()
AutoDetectOpenSector ==
    /\ tg_pc = "scanned"
    /\ IF AutoDetectRaises(tg_points)
       THEN /\ tg_pc' = "raised"
            /\ UNCHANGED <<car_target, tg_found>>
       ELSE /\ tg_pc' = "returned"
            /\ car_target' = auto_detect_open_sector(tg_points, car_target)
            /\ tg_found' = (WideSectors(tg_points) # <<>>)
    /\ UNCHANGED tg_points
    /\ UNCHANGED <<corevars, mvvars, govars, planvars, fwvars, ttvars, rsvars>>

----------------------------------------------------------------------------
(* operate.scan_and_plan *)

\* ProcessScan.regions_by_length: region indexes (0-based), longest first;
\* the stable ascending sort followed by reverse() puts the later of two
\* regions of equal length first
RegionLonger(regs, i, j) ==
    LET li == regs[i + 1][2] - regs[i + 1][1]
        lj == regs[j + 1][2] - regs[j + 1][1]
    IN  li > lj \/ (li = lj /\ i > j)

RECURSIVE SortedLongest(_, _)
SortedLongest(regs, idxs) ==
    IF idxs = {} THEN <<>>
    ELSE LET first == CHOOSE i \in idxs :
                        \A j \in idxs \ {i} : RegionLonger(regs, i, j)
         IN  <<first>> \o SortedLongest(regs, idxs \ {first})

regions_by_length(regs) == SortedLongest(regs, 0..(Len(regs) - 1))

\* long_regs after the indexes of the zero regions have been removed
long_regs(regs, zeros) ==
    SelectSeq(regions_by_length(regs), LAMBDA i : ~InSeq(i, zeros))

\* long2regs = long_regs[:2]
long2regs(regs, zeros) ==
    SubSeq(long_regs(regs, zeros), 1,
           IF Len(long_regs(regs, zeros)) < 2 THEN Len(long_regs(regs, zeros))
           ELSE 2)

\* How scan_and_plan ends once ProcessScan(data) has been built.  Unpacking
\* fewer than two regions raises ValueError, and its handler calls
\* pscan.map(seq_nmbr=...), a keyword ProcessScan.map does not accept
\* (TypeError, line 451).  With two regions, pscan.points[...].get("xy")
\* is called on a Point, which has no get (AttributeError, line 459).
scan_and_plan(regs, zeros) ==
    IF Len(long2regs(regs, zeros)) # 2 THEN "TypeError"
    ELSE "AttributeError"

PlanIdle == plan_ret = <<>> /\ plan_pc = "idle"

\* data = save_scan(nmbr): the scan handed to ProcessScan(data), which is
\* built with the default lev, hev, gap and fit
PlanInit ==
    /\ data \in ScansUpTo(MaxLen)
    /\ self_GAP = GAP /\ self_FIT = FIT /\ self_LEV = LEV
    /\ points = <<>> /\ regions = <<>> /\ segments = <<>>
    /\ zero_regions = <<>> /\ pc = "new"

\* scan_and_plan after ProcessScan(data): no path reaches a return
\* statement.  When ProcessScan itself raised (empty scan, proscan.py:301)
\* the exception passes through.
ScanAndPlan ==
    /\ plan_pc = "idle"
    /\ pc \in {"done", "raised"}
    /\ plan_pc' = IF pc = "raised" THEN "UnboundLocalError"
                  ELSE scan_and_plan(regions, zero_regions)
    /\ UNCHANGED plan_ret
    /\ UNCHANGED <<corevars, mvvars, govars, tgvars, fwvars, ttvars, rsvars>>

----------------------------------------------------------------------------
(* operate.follow_walls_left and operate.follow_walls_left_lite *)

MaxCycles == 2     \* largest n_cycles

CycleVals == -1..MaxCycles

FwIdle ==
    /\ fw_lite = FALSE /\ fw_cycles = 0 /\ fw_n = 0 /\ fw_dist = 0
    /\ fw_log = <<>> /\ fw_pc = "idle"

FwOthers == <<corevars, mvvars, govars, tgvars, planvars, ttvars, rsvars>>

\* follow_walls_left(n_cycles) or follow_walls_left_lite(n_cycles): n = 0
FollowWallsLeft ==
    /\ fw_pc = "idle"
    /\ fw_cycles' \in CycleVals
    /\ fw_lite' \in BOOLEAN
    /\ fw_n' = 0 /\ fw_dist' = 0 /\ fw_log' = <<>>
    /\ fw_pc' = "while"
    /\ UNCHANGED FwOthers

\* align_to_wall(nmbr=nmbr) is called, nmbr = n * 100
CallAlignToWall ==
    /\ fw_pc = "while" /\ fw_n < fw_cycles /\ ~fw_lite
    /\ fw_log' = Append(fw_log, <<"call", "align_to_wall", fw_n * 100>>)
    /\ fw_pc' = "in_align"
    /\ UNCHANGED <<fw_lite, fw_cycles, fw_n, fw_dist>>
    /\ UNCHANGED FwOthers

ReturnAlignToWall ==
    /\ fw_pc = "in_align"
    /\ fw_log' = Append(fw_log, <<"return", "align_to_wall", 0>>)
    /\ fw_pc' = "aligned"
    /\ UNCHANGED <<fw_lite, fw_cycles, fw_n, fw_dist>>
    /\ UNCHANGED FwOthers

\* approach_wall(LFT, CARSPEED, CLEARANCE, nmbr=nmbr), nmbr = n * 100 + 1
CallApproachWall ==
    /\ fw_pc = "aligned"
    /\ fw_log' = Append(fw_log, <<"call", "approach_wall", fw_n * 100 + 1>>)
    /\ fw_pc' = "in_approach"
    /\ UNCHANGED <<fw_lite, fw_cycles, fw_n, fw_dist>>
    /\ UNCHANGED FwOthers

ReturnApproachWall ==
    /\ fw_pc = "in_approach"
    /\ fw_log' = Append(fw_log, <<"return", "approach_wall", 0>>)
    /\ fw_pc' = "approached"
    /\ UNCHANGED <<fw_lite, fw_cycles, fw_n, fw_dist>>
    /\ UNCHANGED FwOthers

\* dist = drive_along_wall_on_left(CARSPEED, CLEARANCE, nmbr=nmbr), with
\* nmbr = n * 100 + 2, or n * 100 in follow_walls_left_lite
CallDriveAlongWall ==
    /\ \/ fw_pc = "approached"
       \/ fw_pc = "while" /\ fw_n < fw_cycles /\ fw_lite
    /\ fw_log' = Append(fw_log, <<"call", "drive_along_wall_on_left",
                                  IF fw_lite THEN fw_n * 100
                                  ELSE fw_n * 100 + 2>>)
    /\ fw_pc' = "in_along"
    /\ UNCHANGED <<fw_lite, fw_cycles, fw_n, fw_dist>>
    /\ UNCHANGED FwOthers

ReturnDriveAlongWall ==
    /\ fw_pc = "in_along"
    /\ \E dist \in LineDistVals :
         /\ fw_dist' = dist
         /\ fw_log' = Append(fw_log, <<"return", "drive_along_wall_on_left",
                                       dist>>)
    /\ fw_pc' = "driven"
    /\ UNCHANGED <<fw_lite, fw_cycles, fw_n>>
    /\ UNCHANGED FwOthers

\* eta.update inside drive_along_wall_on_left divides by zero when two
\* successive scans give the same end_of_wall (DriveAlongWallGo); the
\* exception leaves follow_walls_left
RaiseDriveAlongWall ==
    /\ fw_pc = "in_along"
    /\ fw_pc' = "raised"
    /\ UNCHANGED <<fw_lite, fw_cycles, fw_n, fw_dist, fw_log>>
    /\ UNCHANGED FwOthers

\* radius_turn_on_the_go(CARSPEED, FWD, 90, dist)
CallRadiusTurn ==
    /\ fw_pc = "driven"
    /\ fw_log' = Append(fw_log, <<"call", "radius_turn_on_the_go", fw_dist>>)
    /\ fw_pc' = "in_turn"
    /\ UNCHANGED <<fw_lite, fw_cycles, fw_n, fw_dist>>
    /\ UNCHANGED FwOthers

\* the turn returns; n += 1
ReturnRadiusTurn ==
    /\ fw_pc = "in_turn"
    /\ fw_log' = Append(fw_log, <<"return", "radius_turn_on_the_go", 0>>)
    /\ fw_n' = fw_n + 1
    /\ fw_pc' = "while"
    /\ UNCHANGED <<fw_lite, fw_cycles, fw_dist>>
    /\ UNCHANGED FwOthers

\* while n < n_cycles fails: the function returns
FollowWallsReturn ==
    /\ fw_pc = "while" /\ ~(fw_n < fw_cycles)
    /\ fw_pc' = "returned"
    /\ UNCHANGED <<fw_lite, fw_cycles, fw_n, fw_dist, fw_log>>
    /\ UNCHANGED FwOthers

----------------------------------------------------------------------------
(* operate.turn_to *)

\* normalize_angle: a value in 0..360 (360 itself is left as it is)
RECURSIVE normalize_angle(_)
normalize_angle(angle) ==
    IF angle < 0 THEN normalize_angle(angle + 360)
    ELSE IF angle > 360 THEN normalize_angle(angle - 360)
    ELSE angle

\* relative_bearing(target) with car.heading() = hdg2 / 2 degrees:
\* normalize_angle(int(car.heading() - (target - 180)))
relative_bearing(target, hdg2) ==
    normalize_angle(PyInt(hdg2 - 2 * (target - 180), 2))

\* Mutant: the absolute value is missing from the final test
turn_done_m(heading_error) == -3 < heading_error

\* if -3 < abs(heading_error) < 3
turn_done(heading_error) ==
    -3 < Abs(heading_error) /\ Abs(heading_error) < 3

TurnTargetVals == {-30, 0, 90, 360, 400}
\* car.heading() in half degrees: 87, 90, 92.5, 93, 60, -150, 38.5, -31 degrees
TurnHeadingVals == {174, 180, 185, 186, 120, -300, 77, -62}

TtIdle ==
    /\ tt_target = 0 /\ tt_err = 0 /\ tt_cmd = <<>> /\ tt_pc = "idle"
    /\ tt_trace = <<>>

TtOthers == <<corevars, mvvars, govars, tgvars, planvars, fwvars, rsvars>>

\* turn_to(target) up to the first test of the inner while loop
TurnTo ==
    /\ tt_pc = "idle"
    /\ \E target \in TurnTargetVals, hdg2 \in TurnHeadingVals :
         /\ tt_target' = normalize_angle(target)
         /\ tt_err' = relative_bearing(normalize_angle(target), hdg2) - 180
         /\ tt_trace' = << <<"heading", hdg2>> >>
    /\ tt_cmd' = <<>>
    /\ tt_pc' = "while_pos"
    /\ UNCHANGED TtOthers

\* while heading_error > 2: car.spin(heading_error + 40), read the heading
TurnSpinPos ==
    /\ tt_pc = "while_pos" /\ tt_err > 2
    /\ tt_cmd' = spin(tt_err + 40)
    /\ \E hdg2 \in TurnHeadingVals :
         /\ tt_err' = relative_bearing(tt_target, hdg2) - 180
         /\ tt_trace' = << <<"spin">>, <<"heading", hdg2>> >>
    /\ UNCHANGED <<tt_target, tt_pc>>
    /\ UNCHANGED TtOthers

\* the first inner loop ends: car.stop_wheels()
TurnStopPos ==
    /\ tt_pc = "while_pos" /\ ~(tt_err > 2)
    /\ tt_cmd' = stop_wheels
    /\ tt_trace' = Append(tt_trace, <<"stop">>)
    /\ tt_pc' = "while_neg"
    /\ UNCHANGED <<tt_target, tt_err>>
    /\ UNCHANGED TtOthers

\* while heading_error < -2: car.spin(heading_error - 40), read the heading
TurnSpinNeg ==
    /\ tt_pc = "while_neg" /\ tt_err < -2
    /\ tt_cmd' = spin(tt_err - 40)
    /\ \E hdg2 \in TurnHeadingVals :
         /\ tt_err' = relative_bearing(tt_target, hdg2) - 180
         /\ tt_trace' = << <<"spin">>, <<"heading", hdg2>> >>
    /\ UNCHANGED <<tt_target, tt_pc>>
    /\ UNCHANGED TtOthers

\* the second inner loop ends: car.stop_wheels(), then the tolerance test
\* that either ends turn_to or starts the outer loop again
TurnStopNeg ==
    /\ tt_pc = "while_neg" /\ ~(tt_err < -2)
    /\ tt_cmd' = stop_wheels
    /\ tt_trace' = Append(tt_trace, <<"stop">>)
    /\ tt_pc' = IF turn_done(tt_err) THEN "returned" ELSE "while_pos"
    /\ UNCHANGED <<tt_target, tt_err>>
    /\ UNCHANGED TtOthers

----------------------------------------------------------------------------
(* omnicar.OmniCar.read_dist and resync *)

MaxBytes == 4

\* the frame marker 0x59
Marker == 89
ByteVals == {Marker, 0, 1}
\* low and high byte of the distance field of a frame
DistLowVals == {0, 200}
DistHighVals == {0, 1}

RsIdle ==
    /\ rs_stream = <<>> /\ rs_first = FALSE /\ rs_n = 0 /\ rs_distance = 0
    /\ rs_pc = "idle"

RsOthers == <<corevars, mvvars, govars, tgvars, planvars, fwvars, ttvars>>

\* read_dist: one 9-byte read; a frame that starts with two markers gives
\* the distance, anything else starts resync
ReadDist ==
    /\ rs_pc \in {"idle", "synced"}
    /\ \E b0 \in ByteVals, b1 \in ByteVals,
          b2 \in DistLowVals, b3 \in DistHighVals :
         IF b0 = Marker /\ b1 = Marker
         THEN /\ rs_distance' = b2 + b3 * 256
              /\ rs_pc' = "idle"
              /\ UNCHANGED <<rs_stream, rs_first, rs_n>>
         ELSE /\ rs_stream' = <<>>
              /\ rs_first' = FALSE
              /\ rs_n' = 0
              /\ rs_pc' = "resync"
              /\ UNCHANGED rs_distance
    /\ UNCHANGED RsOthers

\* one pass of the while True loop of resync: a single-byte read
ResyncRead ==
    /\ rs_pc = "resync"
    /\ Len(rs_stream) < MaxBytes
    /\ \E b \in ByteVals :
         /\ rs_stream' = Append(rs_stream, b)
         /\ IF b = Marker /\ ~rs_first
            THEN /\ rs_first' = TRUE
                 /\ rs_n' = rs_n + 1
                 /\ rs_pc' = "resync"
            ELSE IF b = Marker /\ rs_first
            THEN /\ rs_n' = rs_n + 1 + 7
                 /\ rs_pc' = "synced"
                 /\ UNCHANGED rs_first
            ELSE /\ rs_n' = rs_n + 1
                 /\ UNCHANGED <<rs_first, rs_pc>>
    /\ UNCHANGED rs_distance
    /\ UNCHANGED RsOthers

----------------------------------------------------------------------------
(* Specifications: one per component, the other components idle *)

CtlIdle ==
    /\ MvIdle /\ GoIdle /\ TgIdle /\ PlanIdle /\ FwIdle /\ TtIdle /\ RsIdle

Init == ScanInit /\ SecIdle /\ PIDIdle /\ ETAIdle /\ CtlIdle
Next == GeneratePoints \/ GenerateRegions \/ GenerateSegments \/ FindZeroRegions
Spec == Init /\ [][Next]_vars

InitSectors == ScanIdle /\ SecIdle /\ PIDIdle /\ ETAIdle /\ CtlIdle
NextSectors == CarScan \/ OpenSectors
SpecSectors == InitSectors /\ [][NextSectors]_vars

InitPID == ScanIdle /\ SecIdle /\ PIDIdle /\ ETAIdle /\ CtlIdle
NextPID == PIDNew \/ PIDTrim
SpecPID == InitPID /\ [][NextPID]_vars

InitETA == ScanIdle /\ SecIdle /\ PIDIdle /\ ETAIdle /\ CtlIdle
NextETA == ETANew \/ Tick \/ ETAUpdate
SpecETA == InitETA /\ [][NextETA]_vars

InitResync == ScanIdle /\ SecIdle /\ PIDIdle /\ ETAIdle /\ CtlIdle
NextResync == ReadDist \/ ResyncRead
SpecResync == InitResync /\ [][NextResync]_vars

InitTurn == ScanIdle /\ SecIdle /\ PIDIdle /\ ETAIdle /\ CtlIdle
NextTurn ==
    TurnTo \/ TurnSpinPos \/ TurnStopPos \/ TurnSpinNeg \/ TurnStopNeg
SpecTurn == InitTurn /\ [][NextTurn]_vars

InitFollow == ScanIdle /\ SecIdle /\ PIDIdle /\ ETAIdle /\ CtlIdle
NextFollow ==
    \/ FollowWallsLeft
    \/ CallAlignToWall \/ ReturnAlignToWall
    \/ CallApproachWall \/ ReturnApproachWall
    \/ CallDriveAlongWall \/ ReturnDriveAlongWall \/ RaiseDriveAlongWall
    \/ CallRadiusTurn \/ ReturnRadiusTurn
    \/ FollowWallsReturn
SpecFollow == InitFollow /\ [][NextFollow]_vars

InitPlan == PlanInit /\ SecIdle /\ PIDIdle /\ ETAIdle /\ CtlIdle
NextPlan ==
    \/ GeneratePoints \/ GenerateRegions \/ GenerateSegments \/ FindZeroRegions
    \/ ScanAndPlan
SpecPlan == InitPlan /\ [][NextPlan]_vars

InitTarget == ScanIdle /\ SecIdle /\ PIDIdle /\ ETAIdle /\ CtlIdle
NextTarget == TgScan \/ AutoDetectOpenSector
SpecTarget == InitTarget /\ [][NextTarget]_vars

InitGo == ScanIdle /\ SecIdle /\ PIDIdle /\ ETAIdle /\ CtlIdle
NextGo == Go \/ SpinCar \/ StopWheels
SpecGo == InitGo /\ [][NextGo]_vars

InitManeuver == ScanIdle /\ SecIdle /\ PIDIdle /\ ETAIdle /\ CtlIdle
NextManeuver ==
    \/ ApproachWall \/ ApproachWallGo \/ ApproachWallStop
    \/ DriveAlongWall \/ DriveAlongWallGo \/ DriveAlongWallStop
SpecManeuver == InitManeuver /\ [][NextManeuver]_vars

\* The maneuvers run one at a time: operate.py has a single thread of control
InitFeedback == ScanIdle /\ SecIdle /\ PIDIdle /\ ETAIdle /\ CtlIdle
NextFeedback ==
    \/ tt_pc = "idle" /\ NextManeuver
    \/ mv_pc = "idle" /\ NextTurn
SpecFeedback == InitFeedback /\ [][NextFeedback]_vars

----------------------------------------------------------------------------
(* Properties of ProcessScan (specification Spec) *)

Regioned == pc \in {"regions", "segments", "done"}
Segmented == pc \in {"segments", "done"}

XY(i) == PyAt(points, i).xy

\* (q - p) x (r - p) and (q - p) . (s - r)
Cross(p, q, r) == (q[1] - p[1]) * (r[2] - p[2]) - (q[2] - p[2]) * (r[1] - p[1])
Dot(p, q, r, t) == (q[1] - p[1]) * (t[1] - r[1]) + (q[2] - p[2]) * (t[2] - r[2])

\* The points of indexes i0..i1 lie on one line
Collinear(i0, i1) ==
    \A i, j, k \in i0..i1 : Cross(XY(i), XY(j), XY(k)) = 0

\* A straight run: collinear points, each step advancing from i0 toward i1
StraightRun(i0, i1) ==
    /\ i0 < i1
    /\ Collinear(i0, i1)
    /\ \A i \in i0..(i1 - 1) : Dot(XY(i), XY(i + 1), XY(i0), XY(i1)) > 0

\* Two straight runs meeting at a right angle at index k
RightAngle(i0, k, i1) ==
    /\ StraightRun(i0, k)
    /\ StraightRun(k, i1)
    /\ Dot(XY(i0), XY(k), XY(k), XY(i1)) = 0

\* The segments recorded for a region: those lying inside its index range
SegsOfRegion(r) ==
    SelectSeq(segments, LAMBDA sg : r[1] <= sg[1] /\ sg[2] <= r[2])

RegionSet == { regions[k] : k \in 1..Len(regions) }

\* C1: a region of exactly collinear points gets exactly one segment, from
\* the region's start index to its end index.
C1_CollinearOneSegment ==
    Segmented =>
      \A r \in RegionSet :
        Collinear(r[1], r[2]) => SegsOfRegion(r) = << r >>

\* C1 witness: a collinear region of three or more distinct positions that
\* got its single segment
C1_Witness ==
    /\ pc = "done"
    /\ \E r \in RegionSet :
         /\ r[2] >= r[1] + 2
         /\ StraightRun(r[1], r[2])
         /\ SegsOfRegion(r) = << r >>

FitsUpTo(i0, j) ==
    AvgBelow(find_sum_of_sq_dist_to_line(points,
                 cnvrt_2pts_to_coef(XY(i0), XY(j)), i0, j), self_FIT)

GapAt(n) ==
    100 * Abs(PyAt(points, n).dist - PyAt(points, n - 1).dist)
      > self_GAP * PyAt(points, n).dist

InWindow(n) ==
    self_LEV <= PyAt(points, n).enc_val /\ PyAt(points, n).enc_val <= HEV

\* Two clusters of in-window points, the second starting at index b, of at
\* least m points each
TwoClusters(b, m) ==
    /\ m <= b
    /\ b + m <= Len(points)
    /\ \A n \in 0..(Len(points) - 1) : InWindow(n)
    /\ GapAt(b)
    /\ \A n \in 1..(Len(points) - 1) : n # b => ~GapAt(n)

RegionsDisjoint ==
    \A j, k \in 1..Len(regions) : j < k => regions[j][2] < regions[k][1]

RegionsCoverAll ==
    \A i \in 0..(Len(points) - 1) :
      \E r \in RegionSet : r[1] <= i /\ i <= r[2]

\* C3 as claimed: two clusters of any size >= 1 give exactly two disjoint
\* regions that hold every point index.
C3_Original ==
    Regioned =>
      \A b \in 1..(Len(points) - 1) :
        TwoClusters(b, 1)
          => Len(regions) = 2 /\ RegionsDisjoint /\ RegionsCoverAll

\* C3 amended: two clusters of at least two points each give exactly two
\* disjoint regions that hold every point index.
C3_TwoClustersTwoRegions ==
    Regioned =>
      \A b \in 1..(Len(points) - 1) :
        TwoClusters(b, 2)
          => Len(regions) = 2 /\ RegionsDisjoint /\ RegionsCoverAll

\* C3 witness: two clusters of two or more points, segmented in two regions
C3_Witness ==
    /\ pc = "done"
    /\ \E b \in 1..(Len(points) - 1) :
         TwoClusters(b, 2) /\ regions = << <<0, b - 1>>, <<b, Len(points) - 1>> >>

\* C4: the regions of a non-empty scan are ordered and pairwise disjoint:
\* start <= end in each, and each end is below the next start.
C4_RegionsOrdered ==
    (Regioned /\ data # <<>>) =>
      \A k \in 1..Len(regions) :
        /\ regions[k][1] <= regions[k][2]
        /\ k < Len(regions) => regions[k][2] < regions[k + 1][1]

\* C4 witness: a scan segmented in three regions
C4_Witness == pc = "done" /\ Len(regions) >= 3

\* C5: the segments of a region tile it: the first starts at idx0, the last
\* ends at idx1, each has start < end, and each ends where the next starts.
C5_SegmentsTile ==
    Segmented =>
      \A r \in RegionSet :
        LET sgs == SegsOfRegion(r)
        IN  /\ Len(sgs) >= 1
            /\ sgs[1][1] = r[1]
            /\ sgs[Len(sgs)][2] = r[2]
            /\ \A k \in 1..Len(sgs) : sgs[k][1] < sgs[k][2]
            /\ \A k \in 1..(Len(sgs) - 1) : sgs[k][2] = sgs[k + 1][1]

\* C5 witness: a region tiled by three or more segments
C5_Witness ==
    /\ pc = "done"
    /\ \E r \in RegionSet : Len(SegsOfRegion(r)) >= 3

----------------------------------------------------------------------------
(* Properties of open_sectors (specification SpecSectors) *)

SectorsDone == sec_pc \in {"returned", "raised"}

\* C6: for a non-empty scan whose points are all farther than radius,
\* open_sectors returns exactly one sector, from the first point's angle to
\* the last point's angle (angles in whole degrees, as the code reports).
C6_AllOpenOneSector ==
    (SectorsDone /\ car_points # <<>>
       /\ \A k \in 1..Len(car_points) : car_points[k].dist > radius)
    => /\ sec_pc = "returned"
       /\ sectors = << <<AngleDeg(car_points[1]),
                         AngleDeg(car_points[Len(car_points)])>> >>

\* C6 witness: an all-open scan of several points spanning distinct angles
C6_Witness ==
    /\ sec_pc = "returned"
    /\ Len(car_points) >= 3
    /\ \A k \in 1..Len(car_points) : car_points[k].dist > radius
    /\ Len(sectors) = 1
    /\ sectors[1][1] > sectors[1][2]

\* Points i..j (1-based) are the only obstructed ones (0 <= dist < radius),
\* they lie strictly inside the scan, and every other point is open
OneBlock(i, j) ==
    /\ 1 < i /\ i <= j /\ j < Len(car_points)
    /\ \A k \in 1..Len(car_points) :
         IF i <= k /\ k <= j
         THEN 0 <= car_points[k].dist /\ car_points[k].dist < radius
         ELSE IsOpen(car_points[k].dist, radius)

\* C7: with one contiguous obstructed block strictly inside the scan,
\* open_sectors returns exactly two sectors: the first ends at the angle of
\* the last open point before the block, the second starts at the angle of
\* the first open point after it.
C7_BlockTwoSectors ==
    SectorsDone =>
      \A i, j \in 1..Len(car_points) :
        OneBlock(i, j) =>
          /\ sec_pc = "returned"
          /\ Len(sectors) = 2
          /\ sectors[1][2] = AngleDeg(car_points[i - 1])
          /\ sectors[2][1] = AngleDeg(car_points[j + 1])

----------------------------------------------------------------------------
(* Properties of PID (specification SpecPID) *)

\* C8: on a new controller, while every trim() call has read
\* heading = target, up to W + 1 calls, trim() returns PIDTRIM and the
\* stored trim is PIDTRIM.
C8_OnTargetKeepsBaseTrim ==
    (pid_pc = "ready" /\ pid_on_target /\ pid_calls <= PIDWIN + 1)
    => /\ pid.trimval = PIDTRIM
       /\ pid_calls >= 1 => pid_ret = PIDTRIM

\* C8 witness: W + 1 consecutive on-target calls were made
C8_Witness ==
    /\ pid_pc = "ready" /\ pid_on_target /\ pid_calls = PIDWIN + 1
    /\ pid_ret = PIDTRIM

----------------------------------------------------------------------------
(* Properties of ETA (specification SpecETA) *)

\* The estimator was built with initial value 100 and target 0 and has been
\* fed the first n of 80, 60, 40, one second apart
FedScenario(n) ==
    /\ eta.initial_val = 100 /\ eta.target = 0
    /\ eta_hist = SubSeq(<< <<80, 1>>, <<60, 1>>, <<40, 1>> >>, 1, n)

\* C9 as claimed: fed 100, 80, 60, 40 one second apart with target 0, every
\* update returns remaining_updates within 1 of 2.
C9_Original ==
    \A n \in 1..3 :
      (eta_pc = "ready" /\ FedScenario(n)) => eta_ret[1] \in 1..3

\* C9 amended: built with initial value 100 and target 0 and fed 80, 60, 40
\* one second apart, the updates return remaining_updates 4, 3 and 2 (the
\* value divided by the 20 lost per update); only the last two are within
\* 1 of 2.
C9_RemainingIsValueOverStep ==
    \A n \in 1..3 :
      (eta_pc \in {"ready", "raised"} /\ FedScenario(n))
        => eta_pc = "ready" /\ eta_ret[1] = 5 - n

\* C9 witness: the three updates were made, the last returning 2
C9_Witness == eta_pc = "ready" /\ FedScenario(3) /\ eta_ret[1] = 2

\* C10: update(val) with val equal to the previous value does not fail.
\* After a failure at line 110 prev_val is still the previous value, so the
\* states excluded are those where the latest update, given the previous
\* value again, raised.
C10_NoProgressDoesNotFail ==
    ~ ( /\ eta_pc = "raised"
        /\ DeltaBound(eta)
        /\ eta_hist # <<>>
        /\ eta_hist[Len(eta_hist)][1] = eta.prev_val )

----------------------------------------------------------------------------
(* Properties of approach_wall and drive_along_wall_on_left
   (specification SpecManeuver) *)

\* C11: whenever a drive command of approach_wall or
\* drive_along_wall_on_left returns a front distance below the stop
\* threshold, the next motion command sent is stop_wheels and no further
\* drive command follows.
C11_ObstacleAborts ==
    \A k \in 1..Len(mv_log) :
        (mv_log[k][1] = "go" /\ mv_log[k][2] < SONAR_STOP) =>
            /\ mv_pc # "raised"
            /\ k < Len(mv_log) => mv_log[k + 1][1] = "stop"

----------------------------------------------------------------------------
(* Properties of go and spin (specification SpecGo) *)

\* C12: for every speed, direction and spin passed to go and every rate
\* passed to spin, each wheel speed handed to the motor interface lies within
\* the actuation range: a value beyond it is saturated to the limit.
C12_WheelSpeedsClamped ==
    go_pc = "sent" =>
        \A k \in 2..5 : -MotorMax <= go_sent[k] /\ go_sent[k] <= MotorMax

----------------------------------------------------------------------------
(* Properties of auto_detect_open_sector (specification SpecTarget) *)

\* C13: after any sequence of scans and auto_detect_open_sector calls, if the
\* latest call found no sector wider than 12 degrees, the car holds no
\* target.
C13_NoSectorNoTarget ==
    (tg_pc = "returned" /\ ~tg_found) => car_target = <<>>

----------------------------------------------------------------------------
(* Properties of scan_and_plan (specification SpecPlan) *)

\* C14: when the scan yields fewer than two non-zero regions, scan_and_plan
\* does not raise and returns course 0, distance 0.
C14_NoGapReturnsZero ==
    (plan_pc # "idle" /\ Len(regions) - Len(zero_regions) < 2) =>
        (plan_pc = "returned" /\ plan_ret = <<0, 0>>)

----------------------------------------------------------------------------
(* Properties of follow_walls_left (specification SpecFollow) *)

\* the maneuvers of one cycle, in order
CycleManeuvers(lite) ==
    IF lite THEN <<"drive_along_wall_on_left", "radius_turn_on_the_go">>
    ELSE <<"align_to_wall", "approach_wall", "drive_along_wall_on_left",
           "radius_turn_on_the_go">>

RECURSIVE ExpectedManeuvers(_, _)
ExpectedManeuvers(lite, n) ==
    IF n <= 0 THEN <<>>
    ELSE ExpectedManeuvers(lite, n - 1) \o CycleManeuvers(lite)

\* the maneuvers started so far, in order
StartedManeuvers ==
    LET calls == SelectSeq(fw_log, LAMBDA e : e[1] = "call")
    IN  [k \in 1..Len(calls) |-> calls[k][2]]

\* every call is directly followed by the return of the same maneuver, and
\* every turn takes as radius the dist returned by the maneuver before it
OneAtATime ==
    /\ Len(fw_log) % 2 = 0
    /\ \A k \in 1..Len(fw_log) :
         /\ (k % 2 = 1) => /\ fw_log[k][1] = "call"
                           /\ fw_log[k + 1][1] = "return"
                           /\ fw_log[k + 1][2] = fw_log[k][2]
         /\ (fw_log[k][1] = "call" /\ fw_log[k][2] = "radius_turn_on_the_go")
              => /\ k > 1
                 /\ fw_log[k - 1][2] = "drive_along_wall_on_left"
                 /\ fw_log[k][3] = fw_log[k - 1][3]

\* C15: follow_walls_left(n) runs align_to_wall, approach_wall,
\* drive_along_wall_on_left, radius_turn_on_the_go in this order n times, one
\* maneuver at a time, each turn with the dist its cycle's drive returned;
\* the lite variant runs only the last two; for n <= 0 nothing runs.
C15_ManeuverOrder ==
    fw_pc \in {"returned", "raised"} =>
        /\ StartedManeuvers = ExpectedManeuvers(fw_lite, fw_cycles)
        /\ OneAtATime

----------------------------------------------------------------------------
(* Properties of turn_to (specification SpecTurn) *)

\* C16: whatever headings the car reports, turn_to returns only when the
\* last heading error it read is below 3 degrees in magnitude, and the last
\* motion command it sent is stop_wheels.
C16_ReturnsWithinTolerance ==
    tt_pc = "returned" => (Abs(tt_err) < 3 /\ tt_cmd = stop_wheels)

\* turn_to has returned with a non-zero error, toward a target that
\* normalize_angle had to bring into range
C16_Witness ==
    tt_pc = "returned" /\ tt_err = -1 /\ tt_target = 330

----------------------------------------------------------------------------
(* Properties of resync (specification SpecResync) *)

\* C17: resync returns only after two marker bytes that are consecutive in
\* the stream (followed by the 7 remaining bytes of the frame); markers
\* separated by other bytes do not end it.
C17_ConsecutiveMarkers ==
    rs_pc = "synced" =>
        /\ Len(rs_stream) >= 2
        /\ rs_stream[Len(rs_stream)] = Marker
        /\ rs_stream[Len(rs_stream) - 1] = Marker
        /\ rs_n = Len(rs_stream) + 7

----------------------------------------------------------------------------
(* Further properties of PID (specification SpecPID) *)

\* (p_term + i_term + d_term) * 100 * PIDWIN of the trim() call that leads
\* from this state to the next: the error is the one just logged, the window
\* is the one after the push
TrimSumNum ==
    LET error == pid_errs'[Len(pid_errs')]
    IN  KP100 * error * PIDWIN
        + KI100 * SumSeq(pid'.rwl)
        + KD100 * (error - pid.prev_error) * PIDWIN

\* nearest integer to num / den, for den > 0
RoundNearest(num, den) == (2 * num + den) \div (2 * den)

\* C18 as stated: every trim() call adds round(p + i + d), rounded to the
\* nearest integer, to the stored trim and returns the new stored trim.
C18_Original ==
    [][pid_calls' = pid_calls + 1 =>
         /\ pid'.trimval = pid.trimval + RoundNearest(TrimSumNum, 100 * PIDWIN)
         /\ pid_ret' = pid'.trimval]_vars

\* C18 (amended): every trim() call adds int(p + i + d), the sum truncated
\* toward zero, to the stored trim and returns the new stored trim.
C18_TrimAddsTruncatedSum ==
    [][pid_calls' = pid_calls + 1 =>
         /\ pid'.trimval = pid.trimval + PyInt(TrimSumNum, 100 * PIDWIN)
         /\ pid_ret' = pid'.trimval]_vars

\* a second call whose sum is -2.15 when the first one's was 0.75: the
\* stored trim went 8, 8, 6
C18_Witness ==
    pid_calls = 2 /\ pid_errs = <<1, -3>> /\ pid.trimval = PIDTRIM - 2
        /\ pid_ret = pid.trimval

\* C19: after k trim() calls the rolling window holds exactly PIDWIN
\* entries: the errors of the last min(k, PIDWIN) calls, newest first, then
\* PIDWIN - k seed values when k < PIDWIN (the oldest entry is the one each
\* call evicts); prev_error is the error of the latest call.
C19_WindowHoldsLastErrors ==
    pid_pc = "ready" =>
        LET k == Len(pid_errs)
        IN  /\ k = pid_calls
            /\ Len(pid.rwl) = PIDWIN
            /\ \A i \in 1..PIDWIN :
                 pid.rwl[i] = IF i <= k THEN pid_errs[k - i + 1]
                              ELSE PIDInitial
            /\ k > 0 => pid.prev_error = pid_errs[k]

\* one call more than the window holds: the first error, which was not the
\* seed value, has been evicted
C19_Witness ==
    /\ pid_pc = "ready"
    /\ Len(pid_errs) = PIDWIN + 1
    /\ pid_errs[1] = 4
    /\ pid.rwl = <<0, 1, -3, 0, 1, -3>>

\* The latest n trim() calls all read heading = target
OnTargetFor(n) ==
    /\ Len(pid_errs) >= n
    /\ \A i \in (Len(pid_errs) - n + 1)..Len(pid_errs) : pid_errs[i] = 0

\* C20: after any history, once PIDWIN + 1 consecutive calls have read
\* heading = target, a further call that reads heading = target leaves the
\* stored trim unchanged and returns it.
C20_NoDrift ==
    [][(/\ pid_calls' = pid_calls + 1
        /\ OnTargetFor(PIDWIN + 1)
        /\ pid_errs'[Len(pid_errs')] = 0)
       => (pid'.trimval = pid.trimval /\ pid_ret' = pid.trimval)]_vars

\* an off-target call (error 4), then PIDWIN + 1 on-target calls and one
\* more: the stored trim has settled at 9, not at PIDTRIM
C20_Witness ==
    /\ pid_pc = "ready"
    /\ pid_errs = <<4, 0, 0, 0, 0, 0, 0, 0, 0>>
    /\ pid.trimval = 9 /\ pid_ret = 9

----------------------------------------------------------------------------
(* Further properties of ETA (specification SpecETA) *)

\* The latest update(val) of the estimator, read from the history: the
\* value, the time since the previous update, and delta, the progress
\* toward the target since the previous value
LastVal == eta_hist[Len(eta_hist)][1]
LastDt == eta_hist[Len(eta_hist)][2]
LastDelta ==
    LET prev == IF Len(eta_hist) = 1 THEN eta.initial_val
                ELSE eta_hist[Len(eta_hist) - 1][1]
    IN  IF eta.initial_val > eta.target THEN prev - LastVal
        ELSE LastVal - prev

\* floor(num / den) and num / den truncated toward zero, for den # 0
FloorDiv(num, den) ==
    IF den > 0 THEN num \div den ELSE (-num) \div (-den)
TruncDiv(num, den) ==
    IF den > 0 THEN PyInt(num, den) ELSE PyInt(-num, -den)

\* C21 as stated: every update that returns a result returns
\* floor(eta / dt), with eta = (value - target) * dt / delta, whatever the
\* sign of eta.
C21_Original ==
    (eta_pc = "ready" /\ eta_hist # <<>>) =>
        eta_ret[1] = FloorDiv((LastVal - eta.target) * LastDt,
                              LastDelta * LastDt)

\* C21 (amended): every update that returns a result returns
\* int(eta / dt), the quotient truncated toward zero; this is floor(eta / dt)
\* only when eta is not negative or the quotient is whole.
C21_RemainingIsTruncated ==
    (eta_pc = "ready" /\ eta_hist # <<>>) =>
        eta_ret[1] = TruncDiv((LastVal - eta.target) * LastDt,
                              LastDelta * LastDt)

\* an estimator from 40 toward 100 updated with 80: eta / dt = -20 / 40,
\* and 0 is returned
C21_Witness ==
    /\ eta_pc = "ready"
    /\ eta.initial_val = 40 /\ eta.target = 100
    /\ eta_hist = << <<80, 1>> >>
    /\ eta_ret[1] = 0 /\ eta_ret[2] < 0

----------------------------------------------------------------------------
(* Further properties of open_sectors (specification SpecSectors) *)

\* The maximal runs of consecutive open points of a scan, each as
\* (angle of its first point, angle of its last point); cur is the run
\* being followed, <<>> when none is
RECURSIVE OpenRuns(_, _, _, _)
OpenRuns(pts, r, k, cur) ==
    LET done == IF cur = <<>> THEN <<>> ELSE <<cur>>
    IN  IF k > Len(pts) THEN done
        ELSE IF IsOpen(pts[k].dist, r)
        THEN OpenRuns(pts, r, k + 1,
                      IF cur = <<>> THEN <<AngleDeg(pts[k]), AngleDeg(pts[k])>>
                      ELSE <<cur[1], AngleDeg(pts[k])>>)
        ELSE done \o OpenRuns(pts, r, k + 1, <<>>)

\* C22: a point is open exactly when its distance is negative or above
\* radius; the first point that is not open, a point at exactly radius
\* included, closes the open sector, so the sectors returned are the maximal
\* runs of consecutive open points, one sector per run.
C22_SectorsAreOpenRuns ==
    sec_pc = "returned" => sectors = OpenRuns(car_points, radius, 1, <<>>)

\* The sectors emitted inside the loop, whether a sector is open when the
\* scan ends, and that sector
Emitted == SectorsLoopEnd(car_points, radius).sectors
OpenAtEnd == SectorsLoopEnd(car_points, radius).in_sector
EndSector ==
    <<SectorsLoopEnd(car_points, radius).start_angle,
      SectorsLoopEnd(car_points, radius).end_angle>>
EqualsLastEmitted ==
    Emitted # <<>> /\ Emitted[Len(Emitted)] = EndSector

\* C23: when the scan ends with a sector open, that sector is appended to
\* the emitted ones unless it equals the last emitted sector; when it ends
\* with no sector open, the result is the emitted sectors and nothing more.
C23_FinalSector ==
    sec_pc = "returned" =>
        sectors = IF OpenAtEnd /\ ~EqualsLastEmitted
                  THEN Append(Emitted, EndSector)
                  ELSE Emitted

\* a scan that ended with a sector open that equals the last emitted one:
\* it was not appended
C23_Witness ==
    /\ sec_pc = "returned"
    /\ OpenAtEnd /\ EqualsLastEmitted
    /\ sectors = Emitted

----------------------------------------------------------------------------
(* Further properties of ProcessScan (specification Spec) *)

\* The mean distance, to the line through the points at indexes s and e, of
\* the points strictly between them is below fit (true when there is none):
\* (cum / sqrt(den2)) / m < fit, compared on the squares
InteriorFits(pts, fit, s, e) ==
    LET line == cnvrt_2pts_to_coef(PyAt(pts, s).xy, PyAt(pts, e).xy)
        cum == SumNum(pts, line, s + 1, e)
        den2 == p2line_dist(PyAt(pts, s).xy, line).den2
        m == e - s - 1
    IN  m > 0 => cum * cum < fit * fit * m * m * den2

\* C24: for every segment generated for a region, the mean perpendicular
\* distance of the points strictly between its end points, to the line
\* through those end points, is below FIT.
C24_SegmentsFit ==
    Segmented =>
      \A k \in 1..Len(segments) :
        InteriorFits(points, self_FIT, segments[k][1], segments[k][2])

\* C25: in a region (idx0, idx1) with idx0 < idx1, _find_line_segment called
\* from any begin index toward idx1 returns an index above begin and at most
\* idx1; the forward corners of the region are therefore a finite, strictly
\* increasing list that ends with idx1.
C25_CornersAdvance ==
    Segmented =>
      \A r \in { q \in RegionSet : q[1] < q[2] } :
        /\ \A begin \in r[1]..(r[2] - 1) :
             LET idx == find_line_segment(points, self_FIT, begin, r[2])
             IN  begin < idx /\ idx <= r[2]
        /\ LET c == find_corners(points, self_FIT, r)
           IN  /\ Len(c) >= 1
               /\ c[1] > r[1]
               /\ \A k \in 1..(Len(c) - 1) : c[k] < c[k + 1]
               /\ c[Len(c)] = r[2]

\* a region whose forward search stopped twice before reaching its end
C25_Witness ==
    /\ pc = "done"
    /\ \E r \in RegionSet :
         r[1] < r[2] /\ Len(find_corners(points, self_FIT, r)) = 3

\* C26: point generation gives one point per sample, in order, with the
\* sample's encoder count and distance; a point with non-zero distance has
\* the angle of its encoder count and the position
\* (dist * cos(angle), dist * sin(angle)); a point with zero distance has no
\* derived angle or position (they keep the defaults 0 and (0, 0)).
C26_PointsDerived ==
    pc # "new" =>
      /\ Len(points) = Len(data)
      /\ \A k \in 1..Len(data) :
           LET angle == encoder_count_to_radians(data[k][1])
           IN  /\ points[k].enc_val = data[k][1]
               /\ points[k].dist = data[k][2]
               /\ IF data[k][2] # 0
                  THEN /\ points[k].theta = angle
                       /\ points[k].xy = <<DistCos(data[k][2], angle),
                                           DistSin(data[k][2], angle)>>
                  ELSE /\ points[k].theta = 0
                       /\ points[k].xy = <<0, 0>>

\* C27: every region of a scan (encoder count ascending) holds only points
\* whose encoder count is in [LEV, HEV]: the points below LEV and the first
\* point above HEV are in no region.
C27_RegionsInsideWindow ==
    (Regioned /\ data # <<>>) =>
      \A r \in RegionSet :
        \A i \in r[1]..r[2] :
          /\ self_LEV <= PyAt(points, i).enc_val
          /\ PyAt(points, i).enc_val <= HEV

----------------------------------------------------------------------------
(* Further properties of the maneuvers (specification SpecManeuver) *)

\* The k-th event of the maneuver is a scan, made before the closing
\* stop_wheels, that reported the far end of the wall at or below EOW
EndOfWallScan(k) ==
    /\ mv_trace[k][1] = "scan"
    /\ mv_trace[k][2] <= EOW
    /\ k > 1 => mv_trace[k - 1] # <<"stop">>

\* C28 as stated: in drive_along_wall_on_left, once a scan has reported the
\* far end of the wall at or below EOW, no drive command is sent any more.
C28_Original ==
    mv_kind = "along" =>
      \A k \in 1..Len(mv_trace) :
        EndOfWallScan(k) =>
          \A j \in (k + 1)..Len(mv_trace) : mv_trace[j] # <<"go">>

\* C28 (amended): when the scan made before the loop reports the far end at
\* or below EOW, no drive command is sent and the next command is
\* stop_wheels; when a scan made in the loop reports it, the drive command
\* of that pass is still sent, and the next command after it is
\* stop_wheels.
C28_OneMoreDriveThenStop ==
    mv_kind = "along" =>
      \A k \in 1..Len(mv_trace) :
        EndOfWallScan(k) =>
          /\ mv_pc # "raised"
          /\ (k = 1 /\ Len(mv_trace) >= 2) => mv_trace[2] = <<"stop">>
          /\ (k > 1 /\ Len(mv_trace) >= k + 1) => mv_trace[k + 1] = <<"go">>
          /\ (k > 1 /\ Len(mv_trace) >= k + 2) => mv_trace[k + 2] = <<"stop">>
          /\ \A j \in (k + 1)..Len(mv_trace) :
               mv_trace[j] = <<"go">> => (k > 1 /\ j = k + 1)

\* the wall was ahead at the first scan, the scan of the first pass put its
\* far end at 20: one drive command, then stop_wheels and the final scan
C28_Witness ==
    /\ mv_kind = "along" /\ mv_pc = "returned"
    /\ Len(mv_trace) = 5
    /\ mv_trace[1] = <<"scan", 40>>
    /\ mv_trace[2] = <<"scan", 20>>
    /\ mv_trace[3] = <<"go">>
    /\ mv_trace[4] = <<"stop">>

\* C29: drive_along_wall_on_left returns (dist) the wall distance measured
\* by the last scan it made before returning.
C29_ReturnsLastMeasured ==
    (mv_kind = "along" /\ mv_pc = "returned") => mv_dist = mv_scan

----------------------------------------------------------------------------
(* Feedback reads and motion commands (specification SpecFeedback) *)

\* In approach_wall (toward the wall) and drive_along_wall_on_left, each
\* drive command comes right after a heading read or a scan
MvFeedbackBeforeGo ==
    mv_kind \in {"approach", "along"} =>
      \A k \in 1..Len(mv_trace) :
        mv_trace[k] = <<"go">> =>
          (k > 1 /\ mv_trace[k - 1][1] \in {"heading", "scan"})

\* A step of turn_to that sends a spin command
SpinStep == tt_pc \in {"while_pos", "while_neg"} /\ tt_pc' = tt_pc

\* C30: in turn_to, in approach_wall toward the wall and in
\* drive_along_wall_on_left, every drive or spin command follows a heading
\* read or a scan made after the previous drive or spin command of the
\* maneuver.
C30_FeedbackBetweenCommands ==
    /\ []MvFeedbackBeforeGo
    /\ [][SpinStep =>
            \E k \in 1..Len(tt_trace) : tt_trace[k][1] = "heading"]_vars

\* drive_along_wall_on_left after two passes: scan, scan, go, scan, go
C30_Witness ==
    /\ mv_kind = "along"
    /\ Len(mv_trace) >= 5
    /\ mv_trace[3] = <<"go">> /\ mv_trace[4][1] = "scan"
    /\ mv_trace[5] = <<"go">>

----------------------------------------------------------------------------
(* Further properties of auto_detect_open_sector (specification SpecTarget) *)

\* The dists of the points that returned an echo: not zero and not the
\* no-echo reading -3
ValidDists(pts) ==
    SelectSeq([k \in 1..Len(pts) |-> pts[k].dist],
              LAMBDA d : d # 0 /\ d # -3)

\* C31: the search radius of auto_detect_open_sector is 1.5 times the mean
\* of the dists of exactly the valid points; points with no echo are left
\* out of the mean.  The radius the code uses is
\* ScaledRadius / (2 * len(rvals)), compared here by cross-multiplication.
C31_RadiusFromValidMean ==
    (tg_pc = "returned" /\ ValidDists(tg_points) # <<>>) =>
        ScaledRadius(tg_points) * 2 * Len(ValidDists(tg_points))
          = 3 * SumSeq(ValidDists(tg_points)) * 2 * Len(rvals(tg_points))

----------------------------------------------------------------------------
(* Further properties of turn_to (specification SpecTurn) *)

\* C32: normalize_angle returns a value in [0, 360): the target heading
\* turn_to works with and every relative bearing it reads (the heading
\* error plus 180) lie in [0, 360).
C32_NormalizedBelow360 ==
    tt_pc # "idle" =>
        /\ 0 <= tt_target /\ tt_target < 360
        /\ 0 <= tt_err + 180 /\ tt_err + 180 < 360

----------------------------------------------------------------------------
(* Divisions made by segment generation (specification Spec) *)

\* The index pairs <<istrt, istop>> that one call of _find_line_segment
\* passes to _find_sum_of_sq_dist_to_line
RECURSIVE line_segment_calls(_, _, _, _, _, _)
line_segment_calls(pts, fit, istrt, istop, end_idx, below) ==
    LET ascending == istrt < end_idx
        step == IF ascending THEN 1 ELSE -1
        nxt == istop + step
    IN  IF ~below THEN {}
        ELSE IF (ascending /\ nxt > end_idx) \/ (~ascending /\ nxt < end_idx)
        THEN {}
        ELSE LET line == cnvrt_2pts_to_coef(PyAt(pts, istrt).xy,
                                            PyAt(pts, nxt).xy)
                 sm == find_sum_of_sq_dist_to_line(pts, line, istrt, nxt)
             IN  {<<istrt, nxt>>} \cup
                 line_segment_calls(pts, fit, istrt, nxt, end_idx,
                                    AvgBelow(sm, fit))

\* The <<begin_idx, end_idx>> pairs with which _find_corners calls
\* _find_line_segment for a region, in the forward and the reverse pass
corner_calls(pts, fit, region) ==
    LET fwd == corners_fwd(pts, fit, region[1], region[2])
        rev == corners_rev(pts, fit, region[2], region[1])
    IN  IF region[1] = region[2] THEN {}
        ELSE {<<s, region[2]>> :
                 s \in ({region[1]} \cup {fwd[k] : k \in 1..Len(fwd)})
                        \ {region[2]}}
             \cup
             {<<s, region[1]>> :
                 s \in ({region[2]} \cup {rev[k] : k \in 1..Len(rev)})
                        \ {region[1]}}

\* Every mean-distance computation of the segment generation of the scan
MeanCalls ==
    UNION {UNION {line_segment_calls(points, self_FIT, cc[1], cc[1], cc[2],
                                     0 < self_FIT) :
                     cc \in corner_calls(points, self_FIT, regions[k])} :
              k \in 1..Len(regions)}

CallLine(call) ==
    cnvrt_2pts_to_coef(PyAt(points, call[1]).xy, PyAt(points, call[2]).xy)

Degenerate(line) == line[1] = 0 /\ line[2] = 0

\* C33: segment generation never divides by zero: every mean distance of
\* _find_line_segment is taken over at least one point, every projection
\* divides by a nonzero denominator, and with a = b = 0 the projection
\* returns the point unchanged.
C33_NoDivisionByZero ==
    Segmented =>
        \A call \in MeanCalls :
            LET line == CallLine(call)
                sm == find_sum_of_sq_dist_to_line(points, line,
                                                  call[1], call[2])
                lo == IF call[2] < call[1] THEN call[2] ELSE call[1]
            IN  /\ sm.n >= 1
                /\ sm.den2 >= 1
                /\ \A i \in lo..(lo + sm.n - 1) :
                       LET pt == PyAt(points, i).xy
                           p0 == proj_pt_on_line(line, pt)
                       IN  /\ p0.den # 0
                           /\ Degenerate(line) =>
                                  (p0.xn = pt[1] /\ p0.yn = pt[2]
                                   /\ p0.den = 1)

\* a scan with a run of no-echo points (identical coordinates) whose
\* segments were generated: a mean distance to a degenerate line was taken
C33_Witness ==
    /\ Segmented
    /\ \E call \in MeanCalls :
           /\ Degenerate(CallLine(call))
           /\ PyAt(points, call[1]).dist = 0
           /\ PyAt(points, call[2]).dist = 0

----------------------------------------------------------------------------
(* Zero regions (specification Spec) *)

DefaultThresholds == self_GAP = GAP /\ self_FIT = FIT /\ self_LEV = LEV

\* the 0-based point indexes of a region, end points included
RegionIdx(region) == region[1]..region[2]

\* C34: with the default thresholds, zero_regions lists exactly the indexes
\* of the regions whose first point has distance 0, every point of a zero
\* region has distance 0, and no other region contains a point of
\* distance 0.
C34_ZeroRegionsExact ==
    (pc = "done" /\ DefaultThresholds) =>
        /\ \A k \in 1..Len(regions) :
               InSeq(k - 1, zero_regions)
                   <=> PyAt(points, regions[k][1]).dist = 0
        /\ \A j \in 1..Len(zero_regions) :
               zero_regions[j] \in 0..(Len(regions) - 1)
        /\ \A k \in 1..Len(regions) :
               IF InSeq(k - 1, zero_regions)
               THEN \A i \in RegionIdx(regions[k]) : PyAt(points, i).dist = 0
               ELSE \A i \in RegionIdx(regions[k]) : PyAt(points, i).dist # 0

----------------------------------------------------------------------------
(* The wheels at the end of a maneuver (specification SpecManeuver) *)

\* C35: when approach_wall or drive_along_wall_on_left stops running after
\* having sent a drive command, whether it returned or an error was raised
\* inside it, the last motion command sent is stop_wheels.
C35_WheelsStoppedAtEnd ==
    (/\ mv_pc \in {"returned", "raised"}
     /\ \E k \in 1..Len(mv_log) : mv_log[k][1] = "go")
        => mv_log[Len(mv_log)][1] = "stop"

----------------------------------------------------------------------------
(* Wheel speeds sent by turn_to (specification SpecTurn) *)

\* the four wheel speeds of a tuple handed to _xfer_data
WheelSpeeds(cmd) == {cmd[j] : j \in 2..5}

\* C36: every nonzero wheel speed sent to the motors has magnitude at least
\* 50: no speed strictly between 0 and 50 in magnitude is sent by the spin
\* commands of turn_to.
C36_NoSpeedBelow50 ==
    tt_cmd # <<>> =>
        \A m \in WheelSpeeds(tt_cmd) : m = 0 \/ Abs(m) >= 50

----------------------------------------------------------------------------
(* open_sectors on a scan with no open point (specification SpecSectors) *)

\* C37: for a non-empty scan in which every distance is between 0 and the
\* radius (no point is open), open_sectors returns an empty list and does
\* not fail.
C37_NoOpenPointReturnsEmpty ==
    (/\ sec_pc \in {"returned", "raised"}
     /\ car_points # <<>>
     /\ \A k \in 1..Len(car_points) :
            0 <= car_points[k].dist /\ car_points[k].dist <= radius)
        => (sec_pc = "returned" /\ sectors = <<>>)

=============================================================================
